---- MODULE Spec2Model ----
(***************************************************************************)
(* Model of the Confique backend (posts, registrations, notifications,     *)
(* the per-post response cache) and of the client-side post form.          *)
(*                                                                         *)
(* Conventions.  A JavaScript value that may be undefined is an option:    *)
(* Undef (undefined / null / missing) or Some(v).  A stored post is the    *)
(* document as Mongoose hydrates it on findById: schema defaults are       *)
(* filled in, arrays are never undefined.  Texts (title, content, comment  *)
(* text) are modelled by their trimmed length; Undef is the empty or       *)
(* missing string, Some(0) a string of blanks.                             *)
(***************************************************************************)
EXTENDS Integers, Sequences, FiniteSets, TLC

VARIABLES
    posts,          \* Post collection: post id -> stored document
    nextId,         \* next fresh post id (ObjectIds are never reused)
    registrations,  \* Registration collection, in insertion order
    notifications,  \* Notification collection, in insertion order
    cache,          \* NodeCache: post id -> cached representation
    now,            \* server clock
    resp,           \* response to the last request
    inflight,       \* register-event requests between lookup and create, oldest first
    client          \* React state and localStorage of one browser session

vars == <<posts, nextId, registrations, notifications, cache, now, resp, inflight, client>>

----------------------------------------------------------------------------
(* Bounds *)

NumUsers == 3      \* users; user 1 is the administrator
MaxPosts == 1      \* posts created in a run
MaxComments == 2   \* entries of one comment list
MaxTime == 2       \* clock ticks
MaxEvents == 1     \* events created in a run with registrations
MaxRegs == 2       \* Registration documents
MaxTickets == 2    \* selected tickets of one registration
MaxInflight == 2   \* register-event requests between lookup and create
MaxViews == 1      \* counted views of one showcase post

----------------------------------------------------------------------------
(* Values *)

Undef == <<>>
Some(v) == <<v>>
Val(o) == o[1]

Users == 1..NumUsers

\* req.user.isAdmin
isAdmin(u) == u = 1

NoPost == 0
PostIds == 1..MaxPosts

SUBMISSION_DEADLINE == 1
MAX_TITLE == 100
MAX_TEXT == 1000

validTypes == {"confession", "event", "culturalEvent", "news", "showcase"}

\* fields that stay undefined-able in a stored document
OptFields == {"location", "registrationOpen", "price", "paymentMethod",
              "paymentLink", "paymentQRCode", "culturalPaymentMethod",
              "culturalPaymentLink", "culturalPaymentQRCode", "month"}

ArrayFields == {"images", "likedBy", "commentData", "ticketOptions",
                "availableDates", "upvoters", "showcaseComments"}

CounterFields == {"likes", "comments", "upvotes", "commentCount", "views"}

Fields == OptFields \cup ArrayFields \cup CounterFields \cup
          {"type", "title", "content", "userId", "status"}

\* event-only fields the handlers strip from confession, news and showcase
EventFields == {"location", "registrationOpen", "price", "paymentMethod",
                "paymentLink", "paymentQRCode"}

CulturalFields == {"ticketOptions", "culturalPaymentMethod",
                   "culturalPaymentLink", "culturalPaymentQRCode",
                   "availableDates"}

\* postSchema: the default of each path (applied when the path is undefined)
SchemaDefault(f) ==
    CASE f = "price" -> Some(0)
      [] f = "registrationOpen" -> Some(TRUE)
      [] f \in OptFields -> Undef
      [] f \in ArrayFields -> <<>>
      [] f \in CounterFields -> 0
      [] f = "status" -> "approved"
      [] OTHER -> Undef

\* an in-memory document: every path is an option
Draft(post) == [f \in Fields |-> IF f \in OptFields THEN post[f] ELSE Some(post[f])]

\* the document as read back from the store
Hydrate(draft) ==
    [f \in Fields |->
        IF draft[f] = Undef THEN SchemaDefault(f)
        ELSE IF f \in OptFields THEN draft[f] ELSE Val(draft[f])]

EmptyDraft == [f \in Fields |-> Undef]

\* { ...base, ...obj } restricted to the paths in fs
Spread(base, obj, fs) ==
    [f \in Fields |-> IF f \in fs /\ obj[f] # Undef THEN obj[f] ELSE base[f]]

\* assign undefined to every path in fs
Strip(draft, fs) == [f \in Fields |-> IF f \in fs THEN Undef ELSE draft[f]]

validateText(text, min, max) ==
    /\ text # Undef
    /\ Val(text) >= min
    /\ Val(text) <= max

validatePostType(type) == type \in validTypes

\* uploadImage: null for a falsy payload and when the upload fails
uploadImage(image, cloud) ==
    IF image = Undef \/ image = Some("") THEN Undef
    ELSE IF cloud = "ok" THEN Some("url") ELSE Undef

\* Promise.all(images.map(uploadImage)) followed by filter(url => url !== null)
uploadAll(images, cloud) ==
    IF cloud = "ok" THEN [i \in 1..Len(images) |-> "url"] ELSE <<>>

\* Mongoose validators of postSchema run by save()
SchemaValid(d) ==
    /\ d.type # Undef /\ Val(d.type) \in validTypes
    /\ d.title # Undef /\ Val(d.title) >= 1 /\ Val(d.title) <= MAX_TITLE
    /\ d.content # Undef /\ Val(d.content) >= 1
    /\ d.userId # Undef
    /\ d.status = Undef \/ Val(d.status) \in {"pending", "approved", "rejected"}
    /\ d.paymentMethod = Undef \/ Val(d.paymentMethod) \in {"link", "qr"}
    /\ d.culturalPaymentMethod = Undef
          \/ Val(d.culturalPaymentMethod) \in {"link", "qr", "qr-screenshot"}
    /\ d.upvotes = Undef \/ Val(d.upvotes) >= 0
    /\ d.commentCount = Undef \/ Val(d.commentCount) >= 0
    /\ d.ticketOptions = Undef
          \/ \A i \in 1..Len(Val(d.ticketOptions)) :
                /\ Val(d.ticketOptions)[i].ticketType # Undef
                /\ Val(d.ticketOptions)[i].ticketPrice >= 0

\* postSchema.pre('save'); modified is the set of modified paths
PreSave(d, modified) ==
    LET d1 == IF "commentData" \in modified
              THEN [d EXCEPT !.comments =
                       Some(IF d.commentData = Undef THEN 0 ELSE Len(Val(d.commentData)))]
              ELSE d
        d2 == IF "showcaseComments" \in modified
              THEN [d1 EXCEPT !.commentCount =
                       Some(IF d1.showcaseComments = Undef THEN 0
                            ELSE Len(Val(d1.showcaseComments)))]
              ELSE d1
    IN  IF d2.type = Some("showcase") /\ d2.month = Undef
        THEN [d2 EXCEPT !.month = Some("now")]
        ELSE d2

\* server.js error handler: whatever status the code set before it threw,
\* a thrown error is answered with 500
ErrorHandler(status) == 500

\* the response: status code, the message of the body or of the error
\* thrown, the rows of an export or a listing, the document of a GET
Response(op, status, u, id) ==
    [op |-> op, status |-> status, post |-> id, msg |-> "", rows |-> <<>>, body |-> Undef]

\* cache.del(`post_${id}`)
CacheDel(c, id) == [k \in DOMAIN c \ {id} |-> c[k]]

Exists(id) == id \in DOMAIN posts

----------------------------------------------------------------------------
(* authentication *)

\* what the Authorization header of a request carries: nothing, a string
\* that is no signed token, an expired token, a token of a deleted user, a
\* token of an existing user
Tokens == {"none", "malformed", "expired", "orphan", "valid"}

\* verifyToken: the message of the error it throws, "" when it returns
verifyToken(token) ==
    CASE token = "expired" -> "Token expired"
      [] token = "malformed" -> "Invalid token"
      [] OTHER -> ""

\* protect: the message of the error it throws, "" when it calls next()
ProtectError(token) ==
    IF token = "none" THEN "NO_TOKEN_PROVIDED"
    ELSE IF verifyToken(token) = "Token expired" THEN "SESSION_EXPIRED"
    ELSE IF verifyToken(token) = "Invalid token" THEN "INVALID_TOKEN"
    ELSE IF token = "orphan" THEN "AUTHENTICATION_FAILED"
    ELSE ""

\* a route behind protect: the handler runs only after next()
protect(token, u, handler) ==
    IF ProtectError(token) = ""
    THEN handler
    ELSE /\ resp' = [op |-> "protect", status |-> ErrorHandler(401), post |-> NoPost,
                     msg |-> ProtectError(token), rows |-> <<>>, body |-> Undef]
         /\ UNCHANGED <<posts, nextId, registrations, notifications, cache, now, inflight, client>>

----------------------------------------------------------------------------
(* POST /api/posts *)

\* paths of req.body that end up in restOfPostData
CreateRestFields == Fields \ {"type", "images", "paymentQRCode", "culturalPaymentQRCode",
                              "paymentMethod", "ticketOptions", "culturalPaymentMethod",
                              "availableDates", "title", "content"}

\* the type-conditional clean-up of router.post('/')
CreateCleanup(d, p, qrCodeUrl) ==
    LET type == Val(p.type) IN
    IF type = "event" THEN
        LET e1 == IF qrCodeUrl # Undef THEN [d EXCEPT !.paymentQRCode = qrCodeUrl] ELSE d
            e2 == [e1 EXCEPT !.paymentMethod =
                      IF p.paymentMethod # Undef /\ Val(p.paymentMethod) \in {"link", "qr"}
                      THEN p.paymentMethod ELSE Undef]
        IN  Strip(e2, CulturalFields)
    ELSE IF type = "culturalEvent" THEN
        LET c1 == IF qrCodeUrl # Undef THEN [d EXCEPT !.culturalPaymentQRCode = qrCodeUrl] ELSE d
            c2 == [c1 EXCEPT !.ticketOptions = p.ticketOptions,
                             !.culturalPaymentMethod = p.culturalPaymentMethod,
                             !.availableDates = p.availableDates]
        IN  Strip(c2, {"price", "paymentMethod", "paymentLink", "paymentQRCode"})
    ELSE Strip(d, EventFields \cup CulturalFields)

\* newPostData as handed to new Post(...)
NewPostData(u, p, cloud) ==
    LET type == Val(p.type)
        imageUrls == IF p.images # Undef THEN uploadAll(Val(p.images), cloud) ELSE <<>>
        qrCodeUrl == IF type = "event" THEN uploadImage(p.paymentQRCode, cloud)
                     ELSE IF type = "culturalEvent"
                         THEN uploadImage(p.culturalPaymentQRCode, cloud)
                     ELSE Undef
        d0 == Spread(EmptyDraft, p, CreateRestFields)
        d1 == [d0 EXCEPT !.title = p.title,
                         !.content = p.content,
                         !.images = Some(imageUrls),
                         !.type = p.type,
                         !.userId = Some(u),
                         !.status = Some(IF type \in {"event", "culturalEvent"}
                                         THEN "pending" ELSE "approved"),
                         !.likes = Some(0),
                         !.likedBy = Some(<<>>),
                         !.commentData = Some(<<>>)]
        d2 == IF type = "showcase"
              THEN [d1 EXCEPT !.upvotes = Some(0),
                              !.upvoters = Some(<<>>),
                              !.comments = Some(0),
                              !.commentCount = Some(0),
                              !.showcaseComments = Some(<<>>),
                              !.month = IF d0.month # Undef THEN d0.month ELSE Some("now"),
                              !.status = Some("approved"),
                              !.views = Some(0)]
              ELSE d1
    IN  CreateCleanup(d2, p, qrCodeUrl)

\* the checks without the submission deadline
CreateStatus_NoDeadline(u, p, cloud) ==
    IF p.type = Undef \/ p.title = Undef \/ p.content = Undef THEN 400
    ELSE IF ~validatePostType(Val(p.type)) THEN 400
    ELSE IF ~validateText(p.title, 1, MAX_TITLE) THEN 400
    ELSE IF ~validateText(p.content, 1, MAX_TEXT) THEN 400
    ELSE IF ~SchemaValid(NewPostData(u, p, cloud)) THEN 400
    ELSE 201

\* router.post('/'): the status the request is answered with
CreateStatus(u, p, cloud) ==
    IF p.type = Undef \/ p.title = Undef \/ p.content = Undef THEN 400
    ELSE IF ~validatePostType(Val(p.type)) THEN 400
    ELSE IF ~validateText(p.title, 1, MAX_TITLE) THEN 400
    ELSE IF ~validateText(p.content, 1, MAX_TEXT) THEN 400
    ELSE IF Val(p.type) = "showcase" /\ now > SUBMISSION_DEADLINE THEN 400
    ELSE IF ~SchemaValid(NewPostData(u, p, cloud)) THEN 400
    ELSE 201

\* the message of the deadline rejection
CreateMessage(u, p, cloud) ==
    IF /\ p.type = Some("showcase")
       /\ validateText(p.title, 1, MAX_TITLE)
       /\ validateText(p.content, 1, MAX_TEXT)
       /\ now > SUBMISSION_DEADLINE
    THEN "Submissions are closed for Startup Showcase"
    ELSE ""

\* router.post('/'): new Post(newPostData).save(); every path the constructor
\* was given counts as modified (isModified is true on a new document)
CreatePost(u, p, cloud) ==
    /\ LET status == CreateStatus(u, p, cloud) IN
       /\ resp' = [Response("create", status, u, IF status = 201 THEN nextId ELSE NoPost)
                     EXCEPT !.msg = IF status = 400 THEN CreateMessage(u, p, cloud) ELSE ""]
       /\ IF status = 201
          THEN LET d == NewPostData(u, p, cloud)
                   modified == {f \in Fields : d[f] # Undef}
               IN  /\ posts' = (nextId :> Hydrate(PreSave(d, modified))) @@ posts
                   /\ nextId' = nextId + 1
          ELSE UNCHANGED <<posts, nextId>>
    /\ UNCHANGED <<registrations, notifications, cache, now, inflight, client>>

----------------------------------------------------------------------------
(* PUT /api/posts/:id *)

\* paths of req.body that end up in rest
UpdateRestFields == Fields \ {"type", "title", "content", "images", "status",
                              "paymentMethod", "ticketOptions", "culturalPaymentMethod",
                              "availableDates"}

\* the type-conditional clean-up of router.put('/:id')
UpdateCleanup(d) ==
    LET type == Val(d.type) IN
    IF type = "event"
    THEN Strip(d, {"culturalPaymentMethod", "culturalPaymentLink",
                   "culturalPaymentQRCode", "availableDates"})
    ELSE IF type = "culturalEvent"
    THEN Strip(d, {"price", "paymentMethod", "paymentLink", "paymentQRCode"})
    ELSE Strip(d, EventFields \cup CulturalFields)

\* the in-memory document of router.put('/:id') just before save()
UpdatedDraft(u, id, p, cloud) ==
    LET old == Draft(posts[id])
        oldType == posts[id].type
        oldQrCodeUrl == IF oldType = "event" THEN old.paymentQRCode
                        ELSE old.culturalPaymentQRCode
        newQrCodeData == IF oldType = "event" THEN p.paymentQRCode
                         ELSE p.culturalPaymentQRCode
        qrAssigned == newQrCodeData # Undef /\ newQrCodeData # oldQrCodeUrl
        newQrCodeUrl == uploadImage(newQrCodeData, cloud)
        s0 == IF p.images # Undef
              THEN [old EXCEPT !.images = Some(uploadAll(Val(p.images), cloud))]
              ELSE old
        s1 == [s0 EXCEPT
                 !.type = IF p.type # Undef THEN p.type ELSE old.type,
                 !.title = IF p.title # Undef THEN p.title ELSE old.title,
                 !.content = IF p.content # Undef THEN p.content ELSE old.content,
                 !.paymentMethod =
                     IF p.paymentMethod # Undef /\ Val(p.paymentMethod) \in {"link", "qr"}
                     THEN p.paymentMethod ELSE Undef,
                 !.ticketOptions =
                     IF oldType = "culturalEvent" THEN p.ticketOptions ELSE Undef,
                 !.culturalPaymentMethod =
                     IF oldType = "culturalEvent" THEN p.culturalPaymentMethod ELSE Undef,
                 !.availableDates =
                     IF oldType = "culturalEvent" THEN p.availableDates ELSE Undef]
        s2 == Spread(s1, p, UpdateRestFields)
        s3 == IF isAdmin(u) /\ p.status # Undef THEN [s2 EXCEPT !.status = p.status] ELSE s2
        s4 == IF s3.type = Some("event") /\ qrAssigned
                  THEN [s3 EXCEPT !.paymentQRCode = newQrCodeUrl]
              ELSE IF s3.type = Some("culturalEvent") /\ qrAssigned
                  THEN [s3 EXCEPT !.culturalPaymentQRCode = newQrCodeUrl]
              ELSE s3
    IN  UpdateCleanup(s4)

\* the checks without the ownership test
UpdateStatus_NoOwnerCheck(u, id, p, cloud) ==
    IF ~Exists(id) THEN 404
    ELSE IF p.type # Undef /\ ~validatePostType(Val(p.type)) THEN 400
    ELSE IF p.title # Undef /\ ~validateText(p.title, 1, MAX_TITLE) THEN 400
    ELSE IF p.content # Undef /\ ~validateText(p.content, 1, MAX_TEXT) THEN 400
    ELSE IF ~SchemaValid(UpdatedDraft(u, id, p, cloud)) THEN 400
    ELSE 200

UpdateStatus(u, id, p, cloud) ==
    IF ~Exists(id) THEN 404
    ELSE IF posts[id].userId # u /\ ~isAdmin(u) THEN 403
    ELSE IF p.type # Undef /\ ~validatePostType(Val(p.type)) THEN 400
    ELSE IF p.title # Undef /\ ~validateText(p.title, 1, MAX_TITLE) THEN 400
    ELSE IF p.content # Undef /\ ~validateText(p.content, 1, MAX_TEXT) THEN 400
    ELSE IF ~SchemaValid(UpdatedDraft(u, id, p, cloud)) THEN 400
    ELSE 200

UpdatePost(u, id, p, cloud) ==
    /\ LET status == UpdateStatus(u, id, p, cloud) IN
       /\ resp' = Response("update", status, u, id)
       /\ IF status = 200
          THEN LET d == UpdatedDraft(u, id, p, cloud)
                   old == Draft(posts[id])
                   modified == {f \in Fields : d[f] # old[f]}
               IN  /\ posts' = [posts EXCEPT ![id] = Hydrate(PreSave(d, modified))]
                   /\ cache' = CacheDel(cache, id)
          ELSE UNCHANGED <<posts, cache>>
    /\ UNCHANGED <<nextId, registrations, notifications, now, inflight, client>>

----------------------------------------------------------------------------
(* approve, reject and delete *)

\* Registration.deleteMany({ eventId })
DeleteRegistrations(regs, id) == SelectSeq(regs, LAMBDA r : r.eventId # id)

\* Notification.deleteMany({ postId })
DeleteNotifications(ns, id) == SelectSeq(ns, LAMBDA n : n.postId # Some(id))

\* post.deleteOne()
RemovePost(ps, id) == [k \in DOMAIN ps \ {id} |-> ps[k]]

\* router.put('/approve-event/:id'), behind protect and admin
ApproveEvent(u, id) ==
    /\ LET status == IF ~isAdmin(u) THEN ErrorHandler(403)
                     ELSE IF ~Exists(id) THEN 404
                     ELSE IF posts[id].type \notin {"event", "culturalEvent"} THEN 400
                     ELSE 200
       IN /\ resp' = Response("approve", status, u, id)
          /\ IF status = 200
             THEN /\ posts' = [posts EXCEPT ![id].status = "approved"]
                  /\ cache' = CacheDel(cache, id)
             ELSE UNCHANGED <<posts, cache>>
    /\ UNCHANGED <<nextId, registrations, notifications, now, inflight, client>>

\* router.delete('/reject-event/:id'), behind protect and admin
RejectEvent(u, id) ==
    /\ LET status == IF ~isAdmin(u) THEN ErrorHandler(403)
                     ELSE IF ~Exists(id) THEN 404
                     ELSE IF posts[id].type \notin {"event", "culturalEvent"} THEN 400
                     ELSE 200
       IN /\ resp' = Response("reject", status, u, id)
          /\ IF status = 200
             THEN /\ posts' = RemovePost(posts, id)
                  /\ registrations' = DeleteRegistrations(registrations, id)
                  /\ cache' = CacheDel(cache, id)
             ELSE UNCHANGED <<posts, registrations, cache>>
    /\ UNCHANGED <<nextId, notifications, now, inflight, client>>

\* router.delete('/:id')
DeletePost(u, id) ==
    /\ LET status == IF ~Exists(id) THEN 404
                     ELSE IF posts[id].userId # u /\ ~isAdmin(u) THEN 403
                     ELSE 200
       IN /\ resp' = Response("delete", status, u, id)
          /\ IF status = 200
             THEN /\ posts' = RemovePost(posts, id)
                  /\ registrations' =
                        IF posts[id].type \in {"event", "culturalEvent"}
                        THEN DeleteRegistrations(registrations, id)
                        ELSE registrations
                  /\ cache' = CacheDel(cache, id)
             ELSE UNCHANGED <<posts, registrations, cache>>
    /\ UNCHANGED <<nextId, notifications, now, inflight, client>>

\* router.delete('/admin/delete-post/:id'), behind protect and admin
AdminDeletePost(u, id) ==
    /\ LET status == IF ~isAdmin(u) THEN ErrorHandler(403)
                     ELSE IF ~Exists(id) THEN 404
                     ELSE 200
       IN /\ resp' = Response("adminDelete", status, u, id)
          /\ IF status = 200
             THEN /\ posts' = RemovePost(posts, id)
                  /\ notifications' = DeleteNotifications(notifications, id)
                  /\ registrations' = DeleteRegistrations(registrations, id)
             ELSE UNCHANGED <<posts, notifications, registrations>>
    /\ UNCHANGED <<nextId, cache, now, inflight, client>>

----------------------------------------------------------------------------
(* comments, likes, reports, upvotes *)

\* Array.prototype.includes / some over an id list
Includes(seq, u) == \E i \in 1..Len(seq) : seq[i] = u

\* list.filter(id => id !== u)
Without(seq, u) == SelectSeq(seq, LAMBDA x : x # u)

\* notificationSchema validators run by save()
NotificationValid(n) ==
    /\ n.recipient # Undef
    /\ n.type \in {"warning", "success", "info", "report", "registration", "like",
                   "comment", "showcase_upvote", "showcase_comment", "showcase_featured",
                   "showcase_approved", "showcase_system", "showcase_bookmark",
                   "showcase_new_idea", "showcase_winner"}

\* new Notification(fields): paths the schema does not declare are dropped,
\* timestamp defaults to the time of construction
Notification(type, recipient, postId, reporter, relatedPost, relatedUser) ==
    [type |-> type, recipient |-> recipient, postId |-> postId, reporter |-> reporter,
     relatedPost |-> relatedPost, relatedUser |-> relatedUser, timestamp |-> now]

\* the comment handler with unshift in place of push
AddComment_Unshift(u, id, text) ==
    /\ LET status == IF ~Exists(id) THEN 404
                     ELSE IF ~validateText(text, 1, MAX_TEXT) THEN 400
                     ELSE 201
       IN /\ resp' = Response("comment", status, u, id)
          /\ IF status = 201
             THEN LET commentData == <<[userId |-> u, text |-> Val(text)]>>
                                        \o posts[id].commentData
                  IN  /\ posts' = [posts EXCEPT ![id].commentData = commentData,
                                                ![id].comments = Len(commentData)]
                      /\ cache' = CacheDel(cache, id)
             ELSE UNCHANGED <<posts, cache>>
    /\ UNCHANGED <<nextId, registrations, notifications, now, inflight, client>>

\* router.post('/:id/comments')
AddComment(u, id, text) ==
    /\ LET status == IF ~Exists(id) THEN 404
                     ELSE IF ~validateText(text, 1, MAX_TEXT) THEN 400
                     ELSE 201
       IN /\ resp' = Response("comment", status, u, id)
          /\ IF status = 201
             THEN LET commentData == Append(posts[id].commentData, [userId |-> u, text |-> Val(text)])
                  IN  /\ posts' = [posts EXCEPT ![id].commentData = commentData,
                                                ![id].comments = Len(commentData)]
                      /\ cache' = CacheDel(cache, id)
             ELSE UNCHANGED <<posts, cache>>
    /\ UNCHANGED <<nextId, registrations, notifications, now, inflight, client>>

\* the like handler without the test of likedBy
LikePost_NoGuard(u, id) ==
    /\ LET status == IF ~Exists(id) THEN 404 ELSE 200
       IN /\ resp' = Response("like", status, u, id)
          /\ IF status = 200
             THEN /\ posts' = [posts EXCEPT ![id].likes = @ + 1,
                                            ![id].likedBy = Append(@, u)]
                  /\ cache' = CacheDel(cache, id)
             ELSE UNCHANGED <<posts, cache>>
    /\ UNCHANGED <<nextId, registrations, notifications, now, inflight, client>>

\* router.put('/:id/like')
LikePost(u, id) ==
    /\ LET status == IF ~Exists(id) THEN 404
                     ELSE IF Includes(posts[id].likedBy, u) THEN 400
                     ELSE 200
       IN /\ resp' = Response("like", status, u, id)
          /\ IF status = 200
             THEN /\ posts' = [posts EXCEPT ![id].likes = @ + 1,
                                            ![id].likedBy = Append(@, u)]
                  /\ cache' = CacheDel(cache, id)
             ELSE UNCHANGED <<posts, cache>>
    /\ UNCHANGED <<nextId, registrations, notifications, now, inflight, client>>

\* router.put('/:id/unlike')
UnlikePost(u, id) ==
    /\ LET status == IF ~Exists(id) THEN 404
                     ELSE IF ~Includes(posts[id].likedBy, u) THEN 400
                     ELSE 200
       IN /\ resp' = Response("unlike", status, u, id)
          /\ IF status = 200
             THEN /\ posts' = [posts EXCEPT ![id].likes = IF @ > 0 THEN @ - 1 ELSE @,
                                            ![id].likedBy = Without(@, u)]
                  /\ cache' = CacheDel(cache, id)
             ELSE UNCHANGED <<posts, cache>>
    /\ UNCHANGED <<nextId, registrations, notifications, now, inflight, client>>

\* router.post('/:id/report'): notification.save() rejects the document
\* (no recipient) and the request ends in the error handler
ReportPost(u, id, reason) ==
    /\ LET n == Notification("report", Undef, Some(id), Some(u), Undef, Undef)
           status == IF ~Exists(id) THEN 404
                     ELSE IF ~validateText(reason, 1, 500) THEN 400
                     ELSE IF ~NotificationValid(n) THEN ErrorHandler(500)
                     ELSE 201
       IN /\ resp' = Response("report", status, u, id)
          /\ notifications' = IF status = 201 THEN Append(notifications, n)
                              ELSE notifications
    /\ UNCHANGED <<posts, nextId, registrations, cache, now, inflight, client>>

\* Notification.find({ type: 'report' })
ReportedPosts(ns) == SelectSeq(ns, LAMBDA n : n.type = "report")

\* router.get('/admin/reported-posts'), behind protect and admin
GetReportedPosts(u) ==
    /\ LET status == IF ~isAdmin(u) THEN ErrorHandler(403) ELSE 200
       IN resp' = [Response("reportedPosts", status, u, NoPost) EXCEPT
                     !.rows = IF status = 200 THEN ReportedPosts(notifications) ELSE <<>>]
    /\ UNCHANGED <<posts, nextId, registrations, notifications, cache, now, inflight, client>>

Max(a, b) == IF a > b THEN a ELSE b

\* the upvote toggle of router.put('/:id/upvote') applied to a loaded document
ToggleUpvote(post, u) ==
    IF Includes(post.upvoters, u)
    THEN [post EXCEPT !.upvotes = Max(0, @ - 1), !.upvoters = Without(@, u)]
    ELSE [post EXCEPT !.upvotes = @ + 1, !.upvoters = Append(@, u)]

\* router.put('/:id/upvote')
UpvotePost(u, id) ==
    /\ LET status == IF ~Exists(id) THEN 404
                     ELSE IF posts[id].type # "showcase" THEN 400
                     ELSE IF posts[id].userId = u THEN 400
                     ELSE 200
           n == Notification("upvote", Undef, Undef, Undef, Some(id), Some(u))
       IN /\ resp' = Response("upvote", status, u, id)
          /\ IF status = 200
             THEN /\ posts' = [posts EXCEPT ![id] = ToggleUpvote(@, u)]
                  /\ notifications' =
                        IF ~Includes(posts[id].upvoters, u) /\ NotificationValid(n)
                        THEN Append(notifications, n) ELSE notifications
                  /\ cache' = CacheDel(cache, id)
             ELSE UNCHANGED <<posts, notifications, cache>>
    /\ UNCHANGED <<nextId, registrations, now, inflight, client>>

\* router.post('/:id/showcase-comments')
AddShowcaseComment(u, id, text) ==
    /\ LET status == IF ~validateText(text, 1, MAX_TEXT) THEN 400
                     ELSE IF ~Exists(id) THEN 404
                     ELSE IF posts[id].type # "showcase" THEN 400
                     ELSE 201
           n == Notification("comment", Undef, Undef, Undef, Some(id), Some(u))
       IN /\ resp' = Response("showcaseComment", status, u, id)
          /\ IF status = 201
             THEN LET list == Append(posts[id].showcaseComments, [user |-> u, text |-> Val(text)])
                  IN  /\ posts' = [posts EXCEPT ![id].showcaseComments = list,
                                                ![id].commentCount = Len(list)]
                      /\ notifications' =
                            IF posts[id].userId # u /\ NotificationValid(n)
                            THEN Append(notifications, n) ELSE notifications
                      /\ cache' = CacheDel(cache, id)
             ELSE UNCHANGED <<posts, notifications, cache>>
    /\ UNCHANGED <<nextId, registrations, now, inflight, client>>

----------------------------------------------------------------------------
(* GET /api/posts/:id and the cache *)

\* router.get('/:id')
GetPost(id) ==
    /\ IF id \in DOMAIN cache
       THEN /\ resp' = [Response("get", 200, 0, id) EXCEPT !.body = Some(cache[id])]
            /\ UNCHANGED <<posts, cache>>
       ELSE IF Exists(id)
       THEN LET post == IF posts[id].type = "showcase"
                        THEN [posts[id] EXCEPT !.views = @ + 1]
                        ELSE posts[id]
            IN  /\ posts' = [posts EXCEPT ![id] = post]
                /\ cache' = (id :> post) @@ cache
                /\ resp' = [Response("get", 200, 0, id) EXCEPT !.body = Some(post)]
       ELSE /\ resp' = Response("get", 404, 0, id)
            /\ UNCHANGED <<posts, cache>>
    /\ UNCHANGED <<nextId, registrations, notifications, now, inflight, client>>

\* NodeCache stdTTL: an entry disappears once its time to live is over
CacheExpire(id) ==
    /\ id \in DOMAIN cache
    /\ cache' = CacheDel(cache, id)
    /\ UNCHANGED <<posts, nextId, registrations, notifications, now, resp, inflight, client>>

\* the clock moves on
Tick ==
    /\ now < MaxTime
    /\ now' = now + 1
    /\ UNCHANGED <<posts, nextId, registrations, notifications, cache, resp, inflight, client>>

----------------------------------------------------------------------------
(* registrations *)

\* Registration.findOne({ eventId, userId })
FindRegistration(regs, e, u) == \E i \in 1..Len(regs) : regs[i].eventId = e /\ regs[i].userId = u

\* the documents written by a register-event request that passed its checks
Registered(e, u, body, owner) ==
    /\ registrations' = Append(registrations,
                               [eventId |-> e, userId |-> u,
                                selectedTickets |-> body.selectedTickets])
    /\ notifications' =
          \* User.findById(event.userId)
          IF owner \in Users
          THEN Append(notifications,
                      Notification("registration", Some(owner), Some(e),
                                   Undef, Undef, Undef))
          ELSE notifications

\* the checks without the lookup of an existing registration
RegisterStatus_NoLookup(u, e, body) ==
    IF ~Exists(e) THEN ErrorHandler(404)
    ELSE IF body.name = Undef \/ body.email = Undef THEN 400
    ELSE 201

RegisterStatus(u, e, body) ==
    IF ~Exists(e) THEN ErrorHandler(404)
    ELSE IF FindRegistration(registrations, e, u) THEN ErrorHandler(400)
    ELSE IF body.name = Undef \/ body.email = Undef THEN 400
    ELSE 201

\* the message that goes with a rejection
RegisterMessage(u, e, body) ==
    IF ~Exists(e) THEN "Event not found"
    ELSE IF FindRegistration(registrations, e, u)
    THEN "You are already registered for this event"
    ELSE IF body.name = Undef \/ body.email = Undef THEN "Name and email are required"
    ELSE "Registration successful"

\* router.post('/register-event/:eventId'), one request processed on its own
RegisterEvent(u, e, body) ==
    /\ LET status == RegisterStatus(u, e, body) IN
       /\ resp' = [Response("register", status, u, e) EXCEPT
                     !.msg = RegisterMessage(u, e, body)]
       /\ IF status = 201
          THEN Registered(e, u, body, posts[e].userId)
          ELSE UNCHANGED <<registrations, notifications>>
    /\ UNCHANGED <<posts, nextId, cache, now, inflight, client>>

\* the same handler up to and including the await of Registration.findOne
RegisterLookup(u, e, body) ==
    /\ LET status == RegisterStatus(u, e, body) IN
       IF status = 201
       THEN /\ inflight' = Append(inflight, [user |-> u, event |-> e, body |-> body,
                                               owner |-> posts[e].userId])
            /\ UNCHANGED resp
       ELSE /\ resp' = [Response("register", status, u, e) EXCEPT
                          !.msg = RegisterMessage(u, e, body)]
            /\ UNCHANGED inflight
    /\ UNCHANGED <<posts, nextId, registrations, notifications, cache, now, client>>

\* the rest of the handler, from Registration.create on
RegisterCreate(i) ==
    /\ i \in 1..Len(inflight)
    /\ LET r == inflight[i] IN
       /\ inflight' = [k \in 1..(Len(inflight) - 1) |->
                          IF k < i THEN inflight[k] ELSE inflight[k + 1]]
       /\ Registered(r.event, r.user, r.body, r.owner)
       /\ resp' = [Response("register", 201, r.user, r.event) EXCEPT
                     !.msg = "Registration successful"]
    /\ UNCHANGED <<posts, nextId, cache, now, client>>

\* one row per selected ticket and none for a registration without tickets
RowsOf_PerTicketOnly(reg, type) ==
    IF type = "culturalEvent"
    THEN [i \in 1..Len(reg.selectedTickets) |->
             [user |-> reg.userId, ticketType |-> Some(reg.selectedTickets[i].ticketType)]]
    ELSE << [user |-> reg.userId, ticketType |-> Undef] >>

\* the rows the export pushes for one registration
RowsOf(reg, type) ==
    IF type = "culturalEvent" /\ Len(reg.selectedTickets) > 0
    THEN [i \in 1..Len(reg.selectedTickets) |->
             [user |-> reg.userId, ticketType |-> Some(reg.selectedTickets[i].ticketType)]]
    ELSE << [user |-> reg.userId, ticketType |-> Undef] >>

\* registrations.forEach(reg => ...): flattenedData
RECURSIVE flattenedData(_, _)
flattenedData(regs, type) ==
    IF regs = <<>> THEN <<>>
    ELSE RowsOf(Head(regs), type) \o flattenedData(Tail(regs), type)

\* Registration.find({ eventId })
RegistrationsOf(e) == SelectSeq(registrations, LAMBDA r : r.eventId = e)

\* router.get('/export-registrations/:eventId')
ExportRegistrations(u, e) ==
    /\ LET status == IF ~Exists(e) THEN 404
                     ELSE IF posts[e].userId # u /\ ~isAdmin(u) THEN 403
                     ELSE IF RegistrationsOf(e) = <<>> THEN 404
                     ELSE 200
       IN resp' = [Response("export", status, u, e) EXCEPT
                     !.rows = IF status = 200
                              THEN flattenedData(RegistrationsOf(e), posts[e].type)
                              ELSE <<>>]
    /\ UNCHANGED <<posts, nextId, registrations, notifications, cache, now, inflight, client>>

----------------------------------------------------------------------------
(* the client's post form *)

\* AddPostModal.handleSubmit: the checks made before anything is sent
FormValid(form) ==
    /\ form.title # Undef /\ form.content # Undef
    /\ form.type \in {"event", "culturalEvent"} => form.location # Undef
    /\ form.type = "culturalEvent" =>
          /\ ~\E i \in 1..Len(form.ticketOptions) :
                \/ form.ticketOptions[i].ticketType = Undef
                \/ form.ticketOptions[i].ticketPrice < 0
          /\ ~\E i \in 1..Len(form.availableDates) : form.availableDates[i] = ""
    /\ (form.type \in {"event", "culturalEvent"} /\ form.hasRegistration) =>
          /\ form.registrationMethod # Undef
          /\ form.registrationMethod = Some("link") => form.registrationLink # Undef

\* AddPostModal.handleSubmit and App.handleAddPost: the request body
submissionData(form) ==
    LET base == [f \in Fields |-> Undef]
        common == [base EXCEPT !.type = Some(form.type),
                               !.title = form.title,
                               !.content = form.content,
                               !.status = Some(IF form.type \in {"event", "culturalEvent"}
                                               THEN "pending" ELSE "approved"),
                               !.registrationOpen = Some(form.registrationOpen),
                               !.price = Some(0)]
    IN  IF form.type = "event"
        THEN [common EXCEPT !.location = form.location,
                            !.price = Some(form.price),
                            !.paymentMethod = Some(""),
                            !.paymentLink = Some(""),
                            !.paymentQRCode = Some("")]
        ELSE IF form.type = "culturalEvent"
        THEN [common EXCEPT !.location = form.location,
                            !.ticketOptions = Some(form.ticketOptions),
                            !.culturalPaymentMethod =
                                IF form.hasRegistration THEN form.culturalPaymentMethod
                                ELSE Some(""),
                            !.culturalPaymentLink =
                                IF form.hasRegistration
                                   /\ form.culturalPaymentMethod = Some("link")
                                THEN form.culturalPaymentLink ELSE Some(""),
                            !.culturalPaymentQRCode = Some(""),
                            !.availableDates = Some(form.availableDates)]
        ELSE common

\* the form is submitted by a logged-in user
SubmitForm(u, form) ==
    IF FormValid(form)
    THEN CreatePost(u, submissionData(form), "ok")
    ELSE /\ resp' = Response("form", 0, u, NoPost)
         /\ UNCHANGED <<posts, nextId, registrations, notifications, cache, now, inflight, client>>

----------------------------------------------------------------------------
(* request bodies *)

Body(fields) == [f \in Fields |-> IF f \in DOMAIN fields THEN fields[f] ELSE Undef]

General == [ticketType |-> Some("General"), ticketPrice |-> 100]

EventPart ==
    [location |-> Some("hall"), registrationOpen |-> Some(FALSE), price |-> Some(50),
     paymentMethod |-> Some("qr"), paymentLink |-> Some("pay"),
     paymentQRCode |-> Some("qrdata")]

CulturalPart ==
    [ticketOptions |-> Some(<<General>>), culturalPaymentMethod |-> Some("link"),
     culturalPaymentLink |-> Some("cpay"), culturalPaymentQRCode |-> Some("cqrdata"),
     availableDates |-> Some(<<"d1">>)]

ShowcasePart ==
    [month |-> Some("October 2025"), upvotes |-> Some(5), upvoters |-> Some(<<1>>),
     showcaseComments |-> Some(<<[user |-> 1, text |-> 1]>>), commentCount |-> Some(1)]

Text == [title |-> Some(5), content |-> Some(5)]

\* a body that carries only what the type needs, and one that carries
\* the fields of every variant
MinimalBody(t) == Body([type |-> Some(t)] @@ Text)
FullBody(t) == Body([type |-> Some(t)] @@ Text @@ EventPart @@ CulturalPart @@ ShowcasePart)

\* a cultural event with ticket options and the given dates
CulturalBody(dates) ==
    Body([type |-> Some("culturalEvent"), ticketOptions |-> Some(<<General>>),
          availableDates |-> dates] @@ Text)

CreateBodies ==
    {MinimalBody(t) : t \in validTypes} \cup {FullBody(t) : t \in validTypes}
        \cup {CulturalBody(Undef), CulturalBody(Some(<<"d1">>))}
        \cup {Body([type |-> Some("news")]), Body([type |-> Some("bogus")] @@ Text)}

UpdateBodies ==
    {Body([type |-> Some(t)]) : t \in validTypes}
        \cup {Body([type |-> Some(t)] @@ EventPart @@ CulturalPart @@ ShowcasePart)
                 : t \in {"event", "culturalEvent"}}
        \cup {Body([title |-> Some(0)])}

Form(t, dates, hasReg) ==
    [type |-> t, title |-> Some(5), content |-> Some(5), location |-> Some("hall"),
     price |-> 0, registrationOpen |-> TRUE,
     ticketOptions |-> <<General>>, availableDates |-> dates,
     hasRegistration |-> hasReg, registrationMethod |-> Some("link"),
     registrationLink |-> Some("reg"), culturalPaymentMethod |-> Some("link"),
     culturalPaymentLink |-> Some("cpay")]

Forms ==
    {Form("culturalEvent", dates, hasReg) : dates \in {<<>>, <<"">>, <<"d1">>},
                                            hasReg \in BOOLEAN}
        \cup {Form("confession", <<"">>, FALSE), Form("event", <<"">>, TRUE)}

----------------------------------------------------------------------------
(* specifications *)

\* the useState initial values of App and of ProjectDetailsPage for a user
\* who has just logged in: nothing liked, no posts loaded, no notifications,
\* a project without comments on display; currentUser is the entry of
\* localStorage, given by the token it holds
ClientInit ==
    [likedPosts |-> {}, posts |-> <<>>, errors |-> 0, like |-> <<>>,
     commentCount |-> 0, comments |-> <<>>, isSubmitting |-> FALSE,
     comment |-> <<>>, currentUser |-> Some("valid")]

Init ==
    /\ client = ClientInit
    /\ posts = <<>>
    /\ nextId = 1
    /\ registrations = <<>>
    /\ notifications = <<>>
    /\ cache = <<>>
    /\ now = 0
    /\ resp = Response("none", 0, 0, NoPost)
    /\ inflight = <<>>

\* posts are created and edited through the API and through the form
NextHygiene ==
    \/ \E p \in CreateBodies :
          nextId <= MaxPosts /\ CreatePost(2, p, "ok")
    \/ \E id \in 1..MaxPosts, p \in UpdateBodies :
          UpdatePost(2, id, p, "ok")
    \/ \E form \in Forms :
          nextId <= MaxPosts /\ SubmitForm(2, form)

SpecHygiene == Init /\ [][NextHygiene]_vars

\* the selectedTickets of a request body: n tickets
Tickets(n) == [i \in 1..n |-> [ticketType |-> "General", ticketPrice |-> 100, quantity |-> 1]]

\* bodies of register-event requests: with and without name and email
RegBodies ==
    {[name |-> Some("n"), email |-> Some("e"), selectedTickets |-> Tickets(n)]
        : n \in 0..MaxTickets}
    \cup {[name |-> Undef, email |-> Some("e"), selectedTickets |-> <<>>]}

\* the same without tickets
PlainRegBodies == {b \in RegBodies : b.selectedTickets = <<>>}

EventBodies == {MinimalBody(t) : t \in {"event", "culturalEvent", "confession"}}

\* the owner of the posts of a run and one other user
Actors == {2, 3}

\* a register-event body with name and email and n selected tickets
RegBody(n) == [name |-> Some("n"), email |-> Some("e"), selectedTickets |-> Tickets(n)]

\* events are created, registered for and deleted, one request after another
Next ==
    \/ \E p \in EventBodies : nextId <= MaxEvents /\ CreatePost(2, p, "ok")
    \/ \E u \in Actors, e \in 1..MaxEvents, body \in PlainRegBodies :
          /\ RegisterStatus(u, e, body) = 201 => Len(registrations) < MaxRegs
          /\ RegisterEvent(u, e, body)
    \/ \E u \in Users, id \in 1..MaxEvents : DeletePost(u, id)
    \/ \E u \in Users, id \in 1..MaxEvents : RejectEvent(u, id)
    \/ \E u \in Users, id \in 1..MaxEvents : AdminDeletePost(u, id)

Spec == Init /\ [][Next]_vars

\* register-event requests overlap, each awaiting its lookup before it
\* creates, while the owner may delete the event
NextRace ==
    \/ nextId <= MaxEvents /\ CreatePost(2, MinimalBody("event"), "ok")
    \/ \E u \in Actors, e \in 1..MaxEvents, body \in PlainRegBodies :
          /\ RegisterStatus(u, e, body) = 201 => Len(inflight) < MaxInflight
          /\ RegisterLookup(u, e, body)
    \/ \E i \in 1..MaxInflight :
          Len(registrations) < MaxRegs /\ RegisterCreate(i)
    \/ \E id \in 1..MaxEvents : DeletePost(2, id)

SpecRace == Init /\ [][NextRace]_vars

\* bodies of PUT requests that carry engagement counters
EngageUpdates == {Body([upvotes |-> Some(0)])}

\* showcase and ordinary posts are created, edited, liked and upvoted
NextEngage ==
    \/ \E t \in {"showcase", "confession"} :
          nextId <= MaxPosts /\ CreatePost(2, MinimalBody(t), "ok")
    \/ \E id \in PostIds, p \in EngageUpdates : UpdatePost(2, id, p, "ok")
    \/ \E u \in Actors, id \in PostIds : LikePost(u, id)
    \/ \E u \in Actors, id \in PostIds : UnlikePost(u, id)
    \/ \E u \in Actors, id \in PostIds : UpvotePost(u, id)

SpecEngage == Init /\ [][NextEngage]_vars

\* bodies of PUT requests that change the title
AuthzUpdates == {Body([title |-> Some(7)]), Body([title |-> Some(8)])}

\* an event is created, registered for, read, and edited or deleted by
\* its owner, the administrator and other users
NextAuthz ==
    \/ nextId <= MaxPosts /\ CreatePost(2, MinimalBody("event"), "ok")
    \/ \E u \in Actors, e \in PostIds :
          /\ RegisterStatus(u, e, RegBody(0)) = 201 => Len(registrations) < MaxRegs
          /\ RegisterEvent(u, e, RegBody(0))
    \/ \E id \in PostIds : GetPost(id)
    \/ \E u \in Users, id \in PostIds, p \in AuthzUpdates : UpdatePost(u, id, p, "ok")
    \/ \E u \in Users, id \in PostIds : DeletePost(u, id)

SpecAuthz == Init /\ [][NextAuthz]_vars

\* bodies of POST requests that carry comment lists and counters of their own
CommentedBody(t) ==
    Body([type |-> Some(t), comments |-> Some(7), commentCount |-> Some(3),
          commentData |-> Some(<<[userId |-> 1, text |-> 1]>>),
          showcaseComments |-> Some(<<[user |-> 1, text |-> 1]>>)] @@ Text)

CommentBodies ==
    {MinimalBody(t) : t \in {"showcase", "confession", "news"}}
        \cup {CommentedBody(t) : t \in {"showcase", "confession"}}

\* comment texts by their trimmed length: none, empty, short, too long
CommentTexts == {Undef, Some(0), Some(1), Some(MAX_TEXT + 1)}

\* the comments of both kinds a post carries
CommentsOf(id) == Len(posts[id].commentData) + Len(posts[id].showcaseComments)

\* posts are created and commented on, one request after another
NextComments ==
    \/ \E p \in CommentBodies : nextId <= MaxPosts /\ CreatePost(2, p, "ok")
    \/ \E u \in Actors, id \in PostIds, text \in CommentTexts :
          /\ (Exists(id) /\ validateText(text, 1, MAX_TEXT)) => CommentsOf(id) < MaxComments
          /\ AddComment(u, id, text)
    \/ \E u \in Actors, id \in PostIds, text \in CommentTexts :
          /\ (Exists(id) /\ validateText(text, 1, MAX_TEXT)) => CommentsOf(id) < MaxComments
          /\ AddShowcaseComment(u, id, text)

SpecComments == Init /\ [][NextComments]_vars

\* events are created, registered for with and without tickets, and exported
NextExport ==
    \/ \E t \in {"event", "culturalEvent"} :
          nextId <= MaxEvents /\ CreatePost(2, MinimalBody(t), "ok")
    \/ \E u \in Actors, e \in 1..MaxEvents, body \in RegBodies :
          /\ RegisterStatus(u, e, body) = 201 => Len(registrations) < MaxRegs
          /\ RegisterEvent(u, e, body)
    \/ \E u \in Users, e \in 1..MaxEvents : ExportRegistrations(u, e)

SpecExport == Init /\ [][NextExport]_vars

\* bodies of PUT requests that change the type
TypeUpdates == {Body([type |-> Some(t)]) : t \in {"showcase", "confession", "event"}}

\* posts are created and retyped while the clock runs past the deadline
NextDeadline ==
    \/ Tick
    \/ \E p \in CreateBodies : nextId <= MaxPosts /\ CreatePost(2, p, "ok")
    \/ \E id \in PostIds, p \in TypeUpdates : UpdatePost(2, id, p, "ok")

SpecDeadline == Init /\ [][NextDeadline]_vars

\* report reasons by their trimmed length: none, empty, shortest, longest,
\* too long
ReportReasons == {Undef, Some(0), Some(1), Some(500), Some(501)}

\* posts are created, registered for and reported, and the reports listed
\* and deleted by the administrator
NextReport ==
    \/ \E p \in EventBodies : nextId <= MaxPosts /\ CreatePost(2, p, "ok")
    \/ \E u \in Actors, e \in PostIds :
          /\ RegisterStatus(u, e, RegBody(0)) = 201 => Len(registrations) < MaxRegs
          /\ RegisterEvent(u, e, RegBody(0))
    \/ \E u \in Users, id \in PostIds, reason \in ReportReasons : ReportPost(u, id, reason)
    \/ \E u \in Users : GetReportedPosts(u)
    \/ \E u \in Users, id \in PostIds : AdminDeletePost(u, id)

SpecReport == Init /\ [][NextReport]_vars

\* posts are created, read through the cache, liked, unliked and deleted
\* by their owner and by the administrator, one request after another
NextCache ==
    \/ \E t \in {"confession", "showcase"} :
          nextId <= MaxPosts /\ CreatePost(2, MinimalBody(t), "ok")
    \/ \E id \in PostIds :
          /\ (Exists(id) /\ id \notin DOMAIN cache) => posts[id].views < MaxViews
          /\ GetPost(id)
    \/ \E id \in PostIds : CacheExpire(id)
    \/ \E u \in Actors, id \in PostIds : LikePost(u, id)
    \/ \E u \in Actors, id \in PostIds : UnlikePost(u, id)
    \/ \E id \in PostIds : DeletePost(2, id)
    \/ \E id \in PostIds : AdminDeletePost(1, id)

SpecCache == Init /\ [][NextCache]_vars

\* requests to protected routes arrive with every kind of token
NextAuth ==
    \/ \E token \in Tokens, t \in {"confession", "event", "showcase"} :
          nextId <= MaxPosts /\ protect(token, 2, CreatePost(2, MinimalBody(t), "ok"))
    \/ \E token \in Tokens, u \in Actors, id \in PostIds :
          protect(token, u, LikePost(u, id))
    \/ \E token \in Tokens, u \in Actors, id \in PostIds :
          protect(token, u, UnlikePost(u, id))
    \/ \E token \in Tokens, u \in Users, id \in PostIds :
          protect(token, u, DeletePost(u, id))

SpecAuth == Init /\ [][NextAuth]_vars

\* bodies of POST requests that carry an image or a QR code to upload
UploadBodies ==
    {Body([type |-> Some(t), images |-> Some(imgs)] @@ Text)
        : t \in {"confession", "event"},
          imgs \in {<<"data">>, <<"data", "data">>}}
    \cup {Body([type |-> Some("event"), paymentMethod |-> Some("qr"),
                paymentQRCode |-> Some("qrdata")] @@ Text),
          Body([type |-> Some("culturalEvent"), culturalPaymentMethod |-> Some("qr"),
                culturalPaymentQRCode |-> Some("qrdata")] @@ Text),
          MinimalBody("event")}

\* bodies of PUT requests that carry an image or a QR code to upload
UploadUpdates ==
    {Body([images |-> Some(<<"data">>)]), Body([paymentQRCode |-> Some("qrdata2")]),
     Body([title |-> Some(7)])}

\* the body carries something to upload
HasUpload(p) ==
    \/ p.images # Undef /\ Val(p.images) # <<>>
    \/ p.paymentQRCode # Undef
    \/ p.culturalPaymentQRCode # Undef

\* the object storage: every upload of a request succeeds or every one fails
Clouds == {"ok", "fail"}

\* posts with images and QR codes are created, edited and liked while the
\* object storage works or fails
NextUpload ==
    \/ \E p \in UploadBodies, cloud \in Clouds :
          nextId <= MaxPosts /\ CreatePost(2, p, cloud)
    \/ \E id \in PostIds, p \in UploadUpdates, cloud \in Clouds :
          UpdatePost(2, id, p, cloud)
    \/ \E id \in PostIds : LikePost(3, id)
    \/ \E id \in PostIds : UnlikePost(3, id)

SpecUpload == Init /\ [][NextUpload]_vars

----------------------------------------------------------------------------
(* C1: field hygiene *)

ShowcaseOnlyFields == {"upvotes", "upvoters", "showcaseComments", "month"}

\* the fields that belong to variants other than the given type
ForeignFields(type) ==
    CASE type = "event" -> CulturalFields
      [] type = "culturalEvent" -> {"price", "paymentMethod", "paymentLink", "paymentQRCode"}
      [] type = "showcase" -> EventFields \cup CulturalFields
      [] OTHER -> EventFields \cup CulturalFields \cup ShowcaseOnlyFields

\* a path is absent when the stored document shows nothing but the schema default
Absent(post, f) == post[f] = SchemaDefault(f)

\* C1: every stored post of type X carries no field of another variant
C1_ForeignFieldsAbsent ==
    \A id \in DOMAIN posts :
        \A f \in ForeignFields(posts[id].type) : Absent(posts[id], f)

\* C1, the update path alone: after a successful PUT the event and cultural
\* fields foreign to the post's type are absent
C1_UpdateStripsForeign ==
    (resp.op = "update" /\ resp.status = 200) =>
        \A f \in ForeignFields(posts[resp.post].type) \ ShowcaseOnlyFields :
            Absent(posts[resp.post], f)

----------------------------------------------------------------------------
(* C2: one registration per event and user, requests one after another *)

\* the number of Registration documents of event e and user u
RegCount(regs, e, u) ==
    Cardinality({i \in 1..Len(regs) : regs[i].eventId = e /\ regs[i].userId = u})

\* C2: with register-event requests processed one after another, a request
\* of a user who is not yet registered for an existing event and sends name
\* and email creates exactly one Registration, a request of a user who is
\* registered is rejected and creates none, and no (event, user) pair ever
\* has more than one Registration
C2_RegisterAtMostOnce ==
    [][/\ \A e \in 1..MaxEvents, u \in Users : RegCount(registrations', e, u) <= 1
       /\ \A u \in Actors, e \in 1..MaxEvents, body \in PlainRegBodies :
             RegisterEvent(u, e, body) =>
                IF RegCount(registrations, e, u) > 0
                THEN /\ resp'.status # 201
                     /\ registrations' = registrations
                ELSE IF Exists(e) /\ body.name # Undef /\ body.email # Undef
                THEN /\ resp'.status = 201
                     /\ Len(registrations') = Len(registrations) + 1
                     /\ RegCount(registrations', e, u) = 1
                ELSE registrations' = registrations]_vars

\* a second request of a registered user has just been rejected
C2_Witness ==
    /\ resp.op = "register"
    /\ resp.status # 201
    /\ resp.msg = "You are already registered for this event"
    /\ \E u \in Users : RegCount(registrations, resp.post, u) = 1

----------------------------------------------------------------------------
(* C3: one registration per event and user, requests overlapping *)

\* C3: also when register-event requests of the same user for the same event
\* overlap, no (event, user) pair has more than one Registration
C3_AtMostOneRegistration ==
    \A e \in 1..MaxEvents, u \in Users : RegCount(registrations, e, u) <= 1

----------------------------------------------------------------------------
(* C4: the upvote toggle *)

\* the number of times u occurs in seq
Occurrences(seq, u) == Cardinality({i \in 1..Len(seq) : seq[i] = u})

\* C4: an upvote request of a user who is not the owner of a showcase post
\* adds 1 to upvotes and puts the user once into upvoters when the user is not
\* in upvoters, and takes exactly 1 from upvotes and removes the user when the
\* user is in upvoters (so that two requests in a row restore upvotes)
C4_UpvoteToggles ==
    [][\A u \in Actors, id \in PostIds :
          (/\ Exists(id)
           /\ posts[id].type = "showcase"
           /\ posts[id].userId # u
           /\ UpvotePost(u, id)) =>
             IF ~Includes(posts[id].upvoters, u)
             THEN /\ posts'[id].upvotes = posts[id].upvotes + 1
                  /\ Occurrences(posts'[id].upvoters, u) = 1
             ELSE /\ posts'[id].upvotes = posts[id].upvotes - 1
                  /\ ~Includes(posts'[id].upvoters, u)]_vars

----------------------------------------------------------------------------
(* C5: the guards of like, unlike and upvote *)

\* C5: a like of a user already in likedBy, an unlike of a user not in
\* likedBy and an upvote of the post's owner are each answered with 400 and
\* leave the post (likes, likedBy, upvotes, upvoters) as it was
C5_GuardsReject ==
    [][\A u \in Actors, id \in PostIds :
          Exists(id) =>
             /\ (Includes(posts[id].likedBy, u) /\ LikePost(u, id)) =>
                   (resp'.status = 400 /\ posts' = posts)
             /\ (~Includes(posts[id].likedBy, u) /\ UnlikePost(u, id)) =>
                   (resp'.status = 400 /\ posts' = posts)
             /\ (posts[id].userId = u /\ UpvotePost(u, id)) =>
                   (resp'.status = 400 /\ posts' = posts)]_vars

\* a second like of a user has just been rejected
C5_Witness ==
    /\ resp.op = "like"
    /\ resp.status = 400
    /\ Exists(resp.post)
    /\ posts[resp.post].likes = 1
    /\ Len(posts[resp.post].likedBy) = 1

----------------------------------------------------------------------------
(* C6: deleting an event *)

\* a notification refers to post id
RefersTo(n, id) == n.postId = Some(id) \/ n.relatedPost = Some(id)

\* C6: once an event or cultural event is deleted, through any of the three
\* delete routes, no Registration of it and no Notification that refers to it
\* is left
C6_DeleteRemovesDependents ==
    [][\A id \in DOMAIN posts \ DOMAIN posts' :
          posts[id].type \in {"event", "culturalEvent"} =>
             /\ \A i \in 1..Len(registrations') : registrations'[i].eventId # id
             /\ \A i \in 1..Len(notifications') : ~RefersTo(notifications'[i], id)]_vars

----------------------------------------------------------------------------
(* C7: only the owner and the administrator edit and delete *)

\* C7: a PUT or DELETE of a post by a user who is neither its owner nor the
\* administrator is answered with 403 and leaves the post, the registrations
\* and the cache as they were
C7_ForbiddenLeavesState ==
    [][\A u \in Users, id \in PostIds :
          (Exists(id) /\ posts[id].userId # u /\ ~isAdmin(u)) =>
             /\ \A p \in AuthzUpdates :
                   UpdatePost(u, id, p, "ok") =>
                      /\ resp'.status = 403
                      /\ posts' = posts
                      /\ registrations' = registrations
                      /\ cache' = cache
             /\ DeletePost(u, id) =>
                   /\ resp'.status = 403
                   /\ posts' = posts
                   /\ registrations' = registrations
                   /\ cache' = cache]_vars

\* an edit of a cached event with a registration has just been refused
C7_Witness ==
    /\ resp.op = "update"
    /\ resp.status = 403
    /\ Exists(resp.post)
    /\ resp.post \in DOMAIN cache
    /\ \E i \in 1..Len(registrations) : registrations[i].eventId = resp.post

----------------------------------------------------------------------------
(* C8: comment counters *)

\* comments and commentCount agree with the lists they count
CountersAgree(post) ==
    /\ post.comments = Len(post.commentData)
    /\ post.type = "showcase" => post.commentCount = Len(post.showcaseComments)

\* C8: with comment requests processed one after another, every post has
\* comments = length of commentData, every showcase post has commentCount =
\* length of showcaseComments, and an accepted request appends exactly its
\* one comment at the end of its list
C8_CommentCounters ==
    [][/\ \A id \in DOMAIN posts' : CountersAgree(posts'[id])
       /\ \A u \in Actors, id \in PostIds, text \in CommentTexts :
             /\ (AddComment(u, id, text) /\ resp'.status = 201) =>
                   posts'[id].commentData =
                      Append(posts[id].commentData, [userId |-> u, text |-> Val(text)])
             /\ (AddShowcaseComment(u, id, text) /\ resp'.status = 201) =>
                   posts'[id].showcaseComments =
                      Append(posts[id].showcaseComments, [user |-> u, text |-> Val(text)])]_vars

\* a second comment by another user has just been added to a showcase post
C8_Witness ==
    /\ resp.op = "showcaseComment"
    /\ resp.status = 201
    /\ Exists(resp.post)
    /\ posts[resp.post].commentCount = 2
    /\ posts[resp.post].showcaseComments[1].user # posts[resp.post].showcaseComments[2].user

----------------------------------------------------------------------------
(* C9: the rows of the CSV export *)

\* the number of (registration, selected ticket) pairs
RECURSIVE TicketPairs(_)
TicketPairs(regs) ==
    IF regs = <<>> THEN 0
    ELSE Len(Head(regs).selectedTickets) + TicketPairs(Tail(regs))

\* the owner or the administrator exports an existing event
MayExport(u, e) == Exists(e) /\ (posts[e].userId = u \/ isAdmin(u))

\* C9: the CSV of a cultural event has exactly one data row per
\* (registration, selected ticket) pair, registrations without selected
\* tickets included, and the CSV of any other post one row per registration
C9_OneRowPerPair ==
    [][\A u \in Users, e \in 1..MaxEvents :
          (MayExport(u, e) /\ ExportRegistrations(u, e)) =>
             Len(resp'.rows) = IF posts[e].type = "culturalEvent"
                               THEN TicketPairs(RegistrationsOf(e))
                               ELSE Len(RegistrationsOf(e))]_vars

\* the rows a registration is due: one per selected ticket of a cultural
\* event, and one when it selected none or the post is of another type
RowsDue(reg, type) ==
    IF type = "culturalEvent" THEN Max(1, Len(reg.selectedTickets)) ELSE 1

RECURSIVE TotalRowsDue(_, _)
TotalRowsDue(regs, type) ==
    IF regs = <<>> THEN 0
    ELSE RowsDue(Head(regs), type) + TotalRowsDue(Tail(regs), type)

\* C9 (amended): without registrations the export is answered with 404 and
\* no CSV; otherwise the CSV has, for every registration, one row per
\* selected ticket when the post is a cultural event and the registration
\* selected tickets, and exactly one row in every other case
C9_RowsPerRegistration ==
    [][\A u \in Users, e \in 1..MaxEvents :
          (MayExport(u, e) /\ ExportRegistrations(u, e)) =>
             LET regs == RegistrationsOf(e) IN
             IF regs = <<>>
             THEN resp'.status = 404 /\ resp'.rows = <<>>
             ELSE /\ resp'.status = 200
                  /\ Len(resp'.rows) = TotalRowsDue(regs, posts[e].type)
                  /\ \A i \in 1..Len(regs) :
                        Cardinality({k \in 1..Len(resp'.rows) :
                                        resp'.rows[k].user = regs[i].userId})
                           = RowsDue(regs[i], posts[e].type)]_vars

\* a cultural event with one registration without tickets and one with two
\* has been exported in three rows
C9_Witness ==
    /\ resp.op = "export"
    /\ resp.status = 200
    /\ Exists(resp.post)
    /\ posts[resp.post].type = "culturalEvent"
    /\ Len(resp.rows) = 3
    /\ \E i, j \in 1..Len(registrations) :
          /\ registrations[i].eventId = resp.post
          /\ registrations[j].eventId = resp.post
          /\ registrations[i].selectedTickets = <<>>
          /\ Len(registrations[j].selectedTickets) = 2

----------------------------------------------------------------------------
(* C10: cultural events and their dates *)

\* C10: no request creates a cultural event that has ticket options but no
\* available date
C10_CulturalEventNeedsDates ==
    [][\A id \in DOMAIN posts' \ DOMAIN posts :
          ~(/\ posts'[id].type = "culturalEvent"
            /\ posts'[id].ticketOptions # <<>>
            /\ posts'[id].availableDates = <<>>)]_vars

\* C10 for the form alone: a cultural event submitted through AddPostModal
\* with ticket options is stored with at least one available date
C10_FormNeedsDates ==
    (resp.op = "create" /\ resp.status = 201 /\ resp.post \in DOMAIN posts
        /\ posts[resp.post].type = "culturalEvent"
        /\ posts[resp.post].location = Some("hall")
        /\ posts[resp.post].ticketOptions # <<>>)
    => posts[resp.post].availableDates # <<>>

----------------------------------------------------------------------------
(* C11: the submission deadline of showcase posts *)

\* C11: a POST of a showcase post processed after the cutoff is answered
\* with 400 and creates no post
C11_ShowcaseClosedAfterDeadline ==
    [][\A p \in CreateBodies :
          (/\ p.type = Some("showcase")
           /\ now > SUBMISSION_DEADLINE
           /\ CreatePost(2, p, "ok")) =>
             /\ resp'.status = 400
             /\ posts' = posts
             /\ nextId' = nextId]_vars

\* a showcase submission has just been turned down because of the deadline
C11_Witness ==
    /\ resp.op = "create"
    /\ resp.status = 400
    /\ resp.msg = "Submissions are closed for Startup Showcase"
    /\ now > SUBMISSION_DEADLINE
    /\ posts = <<>>

----------------------------------------------------------------------------
(* C12: the notification of an upvote *)

\* C12: every upvote request that adds an upvote leaves a stored
\* Notification addressed to the owner of the post that refers to the post
\* and to the user who upvoted
C12_UpvoteNotifiesOwner ==
    [][\A u \in Actors, id \in PostIds :
          (/\ Exists(id)
           /\ posts[id].type = "showcase"
           /\ posts[id].userId # u
           /\ ~Includes(posts[id].upvoters, u)
           /\ UpvotePost(u, id)) =>
             \E i \in 1..Len(notifications') :
                /\ notifications'[i].recipient = Some(posts[id].userId)
                /\ RefersTo(notifications'[i], id)
                /\ notifications'[i].relatedUser = Some(u)]_vars

----------------------------------------------------------------------------
(* C13: reporting a post *)

\* C13: a report with a valid reason on an existing post is accepted, stores
\* a Notification of type report with the reporter and the post id that the
\* administrator's listing returns, and leaves the post as it was
C13_ReportIsStored ==
    [][\A u \in Users, id \in PostIds, reason \in ReportReasons :
          (/\ Exists(id)
           /\ validateText(reason, 1, 500)
           /\ ReportPost(u, id, reason)) =>
             /\ resp'.status = 201
             /\ \E i \in 1..Len(ReportedPosts(notifications')) :
                   /\ ReportedPosts(notifications')[i].reporter = Some(u)
                   /\ ReportedPosts(notifications')[i].postId = Some(id)
             /\ posts' = posts]_vars

----------------------------------------------------------------------------
(* C14: the cache of GET /api/posts/:id *)

\* C14: with requests processed one after another, a GET of a post answers
\* with the post as the completed mutations left it, and with 404 once the
\* post is deleted
C14_GetIsFresh ==
    [][\A id \in PostIds :
          GetPost(id) =>
             IF Exists(id)
             THEN resp'.status = 200 /\ resp'.body = Some(posts'[id])
             ELSE resp'.status = 404]_vars

----------------------------------------------------------------------------
(* C15: requests without a usable token *)

\* C15: a request to a protected route whose token is missing, invalid,
\* expired or of a deleted user does not reach the handler and is answered
\* with 401; a missing token is reported as NO_TOKEN_PROVIDED, an invalid
\* one as INVALID_TOKEN and an expired one as SESSION_EXPIRED
C15_Unauthorized ==
    [][\A token \in Tokens \ {"valid"}, u \in Actors, id \in PostIds :
          protect(token, u, LikePost(u, id)) =>
             /\ resp'.status = 401
             /\ token = "none" => resp'.msg = "NO_TOKEN_PROVIDED"
             /\ token = "malformed" => resp'.msg = "INVALID_TOKEN"
             /\ token = "expired" => resp'.msg = "SESSION_EXPIRED"
             /\ UNCHANGED <<posts, nextId, registrations, notifications, cache>>]_vars

----------------------------------------------------------------------------
(* C16: a failed upload *)

\* C16: when the upload of an image or QR code of a POST or PUT fails,
\* the request fails and the post is not created, respectively not modified
C16_UploadFailureBlocks ==
    [][/\ \A p \in UploadBodies :
             (HasUpload(p) /\ CreatePost(2, p, "fail")) =>
                (resp'.status \notin {200, 201} /\ posts' = posts)
       /\ \A id \in PostIds, p \in UploadUpdates :
             (Exists(id) /\ HasUpload(p) /\ UpdatePost(2, id, p, "fail")) =>
                (resp'.status \notin {200, 201} /\ posts' = posts)]_vars

----------------------------------------------------------------------------
(* the React client: likes *)

MaxErrors == 2     \* error notifications the client shows

\* the user logged in at the client
ClientUser == 3

\* callApi: a 401 reloads the page and returns nothing, any other status
\* outside 2xx throws, a request that was never answered throws
callApi(status) ==
    IF status = 401 THEN "reload"
    ELSE IF status \in 200..299 THEN "ok"
    ELSE "throw"

\* the frame of a step of the client alone
ClientOnly == UNCHANGED <<posts, nextId, registrations, notifications, cache, now, inflight>>

\* fetchPosts: the client loads the posts with their likes; events and
\* showcase posts that are not approved are hidden from an ordinary user
fetchPosts ==
    /\ client.like = <<>>
    /\ LET filteredData ==
              {id \in DOMAIN posts :
                  posts[id].type \in {"event", "culturalEvent", "showcase"}
                     => posts[id].status = "approved"}
       IN client' = [client EXCEPT !.posts = [id \in filteredData |-> posts[id].likes]]
    /\ resp' = Response("posts", 200, ClientUser, NoPost)
    /\ ClientOnly

\* GET /api/users/liked-posts: approved showcase posts the user has upvoted
LikedPostIds(u) ==
    {id \in DOMAIN posts : /\ posts[id].type = "showcase"
                           /\ posts[id].status = "approved"
                           /\ Includes(posts[id].upvoters, u)}

\* fetchLikedPosts: the liked posts of the server merged with the local ones
fetchLikedPosts(local) == LikedPostIds(ClientUser) \cup local

\* handleLikePost up to the await of callApi: the optimistic update of
\* likedPosts and of the likes of the post; the request is on its way
handleLikePost(postId) ==
    /\ client.like = <<>>
    /\ postId \in DOMAIN client.posts
    /\ client.errors < MaxErrors
    /\ LET isCurrentlyLiked == postId \in client.likedPosts IN
       client' = [client EXCEPT
                    !.likedPosts = IF isCurrentlyLiked THEN @ \ {postId} ELSE @ \cup {postId},
                    !.posts = [@ EXCEPT ![postId] = IF isCurrentlyLiked THEN @ - 1 ELSE @ + 1],
                    !.like = IF client.currentUser # Undef
                             THEN <<[postId |-> postId, isCurrentlyLiked |-> isCurrentlyLiked]>>
                             ELSE <<>>]
    /\ resp' = Response("none", 0, ClientUser, NoPost)
    /\ ClientOnly

\* the request of handleLikePost has been answered
LikeAnswered == resp.op \in {"like", "unlike", "protect"}

\* the server handles the request of handleLikePost
LikeRequest ==
    /\ client.like # <<>>
    /\ ~LikeAnswered
    /\ LET call == client.like[1] IN
       IF call.isCurrentlyLiked THEN UnlikePost(ClientUser, call.postId)
       ELSE LikePost(ClientUser, call.postId)

\* the catch block of handleLikePost with the optimistic update reverted
LikeSettled_Revert(c, outcome) ==
    IF outcome = "throw"
    THEN LET call == c.like[1] IN
         [c EXCEPT !.errors = @ + 1, !.like = <<>>,
                   !.likedPosts = IF call.isCurrentlyLiked THEN @ \cup {call.postId}
                                  ELSE @ \ {call.postId},
                   !.posts = [@ EXCEPT ![call.postId] =
                                 IF call.isCurrentlyLiked THEN @ + 1 ELSE @ - 1]]
    ELSE IF outcome = "reload"
    THEN [ClientInit EXCEPT !.likedPosts = c.likedPosts, !.currentUser = Undef]
    ELSE [c EXCEPT !.likedPosts = fetchLikedPosts(@), !.like = <<>>]

\* the state of the client after the try block of handleLikePost, given
\* what callApi did
LikeSettled(c, outcome) ==
    IF outcome = "throw"
    THEN [c EXCEPT !.errors = @ + 1, !.like = <<>>]
    ELSE IF outcome = "reload"
    THEN [ClientInit EXCEPT !.likedPosts = c.likedPosts, !.currentUser = Undef]
    ELSE [c EXCEPT !.likedPosts = fetchLikedPosts(@), !.like = <<>>]

\* handleLikePost after the await: the answer of the server has arrived
LikeResponse ==
    /\ client.like # <<>>
    /\ LikeAnswered
    /\ client' = LikeSettled(client, callApi(resp.status))
    /\ resp' = Response("none", 0, ClientUser, NoPost)
    /\ ClientOnly

\* handleLikePost after the await: fetch rejected, the server never answered
LikeNetworkError ==
    /\ client.like # <<>>
    /\ ~LikeAnswered
    /\ client' = LikeSettled(client, "throw")
    /\ resp' = Response("none", 0, ClientUser, NoPost)
    /\ ClientOnly

\* a logged-in user of the client likes and unlikes the posts on display
\* while their owner creates and deletes them
NextLike ==
    \/ \E t \in {"confession", "showcase"} :
          nextId <= MaxPosts /\ CreatePost(2, MinimalBody(t), "ok")
    \/ \E id \in PostIds : client.like = <<>> /\ DeletePost(2, id)
    \/ fetchPosts
    \/ \E id \in PostIds : handleLikePost(id)
    \/ LikeRequest
    \/ LikeResponse
    \/ LikeNetworkError

SpecLike == Init /\ [][NextLike]_vars

----------------------------------------------------------------------------
(* C17: a failed like keeps the optimistic update *)

\* C17: when the like or unlike call of handleLikePost fails, likedPosts
\* keeps the toggled membership of the post and the likes of the post keep
\* the optimistic value; the only change is one more error notification
C17_FailedLikeKept ==
    [][((LikeResponse /\ callApi(resp.status) = "throw") \/ LikeNetworkError) =>
          /\ client'.likedPosts = client.likedPosts
          /\ client'.posts = client.posts
          /\ client'.errors = client.errors + 1
          /\ LET call == client.like[1] IN
             (call.postId \in client'.likedPosts) = ~call.isCurrentlyLiked]_vars

\* a like was refused by the server and the post still shows as liked
C17_Witness ==
    /\ client.errors > 0
    /\ client.like = <<>>
    /\ \E id \in DOMAIN posts :
          /\ id \in client.likedPosts
          /\ id \in DOMAIN client.posts
          /\ client.posts[id] = posts[id].likes + 1
          /\ ~Includes(posts[id].likedBy, ClientUser)

----------------------------------------------------------------------------
(* the React client: the comments of the project details page *)

\* the comment list of the page without its optimistic entries
WithoutOptimistic(comments) == SelectSeq(comments, LAMBDA isOptimistic : ~isOptimistic)

\* the useEffect hooks of ProjectDetailsPage and CommentSection: a new
\* project prop replaces the count and the comment list
syncProject(id) ==
    /\ Exists(id)
    /\ posts[id].type = "showcase"
    /\ ~client.isSubmitting
    /\ LET project == [commentCount |-> posts[id].commentCount,
                       comments |-> posts[id].showcaseComments]
           calculatedCount == IF project.commentCount # 0 THEN project.commentCount
                              ELSE Len(project.comments)
       IN client' = [client EXCEPT
                       !.commentCount = calculatedCount,
                       !.comments = [i \in 1..Len(project.comments) |-> FALSE]]
    /\ resp' = Response("posts", 200, ClientUser, id)
    /\ ClientOnly

\* CommentSection.handlePostComment and handleNewCommentPosted up to the
\* await of onAddComment: the temporary comment is put in front of the list
\* and the count is raised; before is the count at the time of the call
handlePostComment(text) ==
    /\ text # Undef /\ Val(text) > 0
    /\ ~client.isSubmitting
    /\ Len(client.comments) < MaxComments
    /\ client.commentCount < MaxComments
    /\ client' = [client EXCEPT
                    !.isSubmitting = TRUE,
                    !.comments = <<TRUE>> \o @,
                    !.commentCount = @ + 1,
                    !.comment = <<[before |-> client.commentCount]>>]
    /\ UNCHANGED resp
    /\ ClientOnly

\* the handlers after the await without the rollback of the catch blocks
CommentSettled_NoRollback(c, outcome) ==
    [c EXCEPT !.isSubmitting = FALSE, !.comment = <<>>]

\* the handlers after the await: onAddComment resolved or rejected
CommentSettled(c, outcome) ==
    IF outcome = "rejected"
    THEN [c EXCEPT !.commentCount = Max(0, @ - 1),
                   !.comments = WithoutOptimistic(@),
                   !.isSubmitting = FALSE,
                   !.comment = <<>>]
    ELSE [c EXCEPT !.isSubmitting = FALSE, !.comment = <<>>]

\* onAddComment resolved
CommentResolved ==
    /\ client.isSubmitting
    /\ client' = CommentSettled(client, "resolved")
    /\ UNCHANGED resp
    /\ ClientOnly

\* onAddComment rejected
CommentRejected ==
    /\ client.isSubmitting
    /\ client' = CommentSettled(client, "rejected")
    /\ UNCHANGED resp
    /\ ClientOnly

\* a project is created and commented on at the server while the page
\* shows it and its user posts comments
NextDetails ==
    \/ nextId <= MaxPosts /\ CreatePost(2, MinimalBody("showcase"), "ok")
    \/ \E u \in Actors, id \in PostIds :
          /\ Exists(id) => CommentsOf(id) < MaxComments
          /\ AddShowcaseComment(u, id, Some(1))
    \/ \E id \in PostIds : syncProject(id)
    \/ \E text \in {Some(1), Some(MAX_TEXT + 1)} : handlePostComment(text)
    \/ CommentResolved
    \/ CommentRejected

SpecDetails == Init /\ [][NextDetails]_vars

----------------------------------------------------------------------------
(* C18: the comment count of the project details page *)

----------------------------------------------------------------------------
(* notifications: the cleanup job and the routes that delete *)

\* one step of the clock in days
DAYS_PER_TICK == 60

\* NOTIFICATION_CONFIG.RETENTION_DAYS
RETENTION_DAYS == 5

\* daysToKeep of the cleanup job
daysToKeep == 60

\* values of process.env.CRON_SECRET_KEY: not set, or a secret
Secrets == {Undef, Some("secret")}

\* values of req.query.key
QueryKeys == {Undef, Some(""), Some("secret"), Some("guess")}

\* values of the x-api-key header
HeaderKeys == {Undef, Some("secret"), Some("guess")}

\* req.query.key || req.headers['x-api-key']
secretKey(query, header) ==
    IF query # Undef /\ Val(query) # "" THEN query ELSE header

\* router.get('/cleanup'): the comparison with process.env.CRON_SECRET_KEY
CleanupStatus(secret, query, header) ==
    IF secretKey(query, header) # secret THEN 401 ELSE 200

\* router.get('/cleanup')
CronCleanup(secret, query, header) ==
    /\ LET status == CleanupStatus(secret, query, header)
           cutoffDate == now - (daysToKeep \div DAYS_PER_TICK)
       IN /\ resp' = Response("cleanup", status, 0, NoPost)
          /\ notifications' =
                IF status = 200
                THEN SelectSeq(notifications, LAMBDA n : ~(n.timestamp < cutoffDate))
                ELSE notifications
    /\ UNCHANGED <<posts, nextId, registrations, cache, now, inflight, client>>

\* getExpirationDate
getExpirationDate == now - (RETENTION_DAYS \div DAYS_PER_TICK)

\* buildBaseQuery(userId) applied to a stored notification
buildBaseQuery(userId, n) ==
    n.recipient = Some(userId) /\ n.timestamp >= getExpirationDate

\* the path segment clear-all
ClearAll == [text |-> "clear-all", hex24 |-> FALSE, n |-> 0]

\* the path segment that is the ObjectId of the n-th stored notification
ObjectId(n) == [text |-> "ObjectId", hex24 |-> TRUE, n |-> n]

\* last segments of DELETE /api/notifications/...
Segments == {ClearAll} \cup {ObjectId(n) : n \in 1..MaxRegs}

\* /^[0-9a-fA-F]{24}$/ applied to the segment
IsObjectId(seg) == seg.hex24

\* seq without its i-th element
RemoveAt(seq, i) == [j \in 1..(Len(seq) - 1) |-> IF j < i THEN seq[j] ELSE seq[j + 1]]

\* router.delete('/:id')
DeleteNotification(u, seg) ==
    /\ LET found == /\ IsObjectId(seg)
                    /\ seg.n \in 1..Len(notifications)
                    /\ notifications[seg.n].recipient = Some(u)
           status == IF ~IsObjectId(seg) THEN 400
                     ELSE IF ~found THEN 404
                     ELSE 200
       IN /\ resp' = [Response("deleteNotification", status, u, NoPost) EXCEPT
                        !.msg = IF status = 400 THEN "Invalid notification ID format"
                                ELSE ""]
          /\ notifications' = IF status = 200 THEN RemoveAt(notifications, seg.n)
                              ELSE notifications
    /\ UNCHANGED <<posts, nextId, registrations, cache, now, inflight, client>>

\* router.delete('/clear-all')
ClearAllNotifications(u) ==
    /\ resp' = Response("clearAll", 200, u, NoPost)
    /\ notifications' = SelectSeq(notifications, LAMBDA n : ~buildBaseQuery(u, n))
    /\ UNCHANGED <<posts, nextId, registrations, cache, now, inflight, client>>

\* the route pattern '/:id': any one non-empty segment
MatchesParam(seg) == seg.text # ""

\* the DELETE routes of the notifications router in the order of their
\* registration: '/:id' takes every path of one segment, '/clear-all' the
\* requests no earlier route has answered
DeleteNotificationRoute(u, seg) ==
    IF MatchesParam(seg) THEN DeleteNotification(u, seg)
    ELSE IF seg = ClearAll THEN ClearAllNotifications(u)
    ELSE FALSE

\* events are created and registered for, time passes, the cleanup job is
\* called and users delete notifications
NextNotify ==
    \/ \E u \in Actors : nextId <= MaxEvents /\ CreatePost(u, MinimalBody("event"), "ok")
    \/ \E u \in Actors, e \in 1..MaxEvents :
          /\ RegisterStatus(u, e, RegBody(0)) = 201 => Len(registrations) < MaxRegs
          /\ RegisterEvent(u, e, RegBody(0))
    \/ Tick
    \/ \E secret \in Secrets, query \in QueryKeys, header \in HeaderKeys :
          CronCleanup(secret, query, header)
    \/ \E u \in Actors, seg \in Segments : DeleteNotificationRoute(u, seg)

SpecNotify == Init /\ [][NextNotify]_vars

----------------------------------------------------------------------------
(* C19: the cleanup job is guarded by the shared secret *)

\* C19: the cleanup deletes only for a caller whose key equals the
\* configured secret; every other request, one without any key included
\* whatever the configuration, is answered 401 and deletes nothing
C19_CleanupNeedsKey ==
    [][\A secret \in Secrets, query \in QueryKeys, header \in HeaderKeys :
          (/\ CronCleanup(secret, query, header)
           /\ ~(secret # Undef /\ secretKey(query, header) = secret))
             => (resp'.status = 401 /\ notifications' = notifications)]_vars

----------------------------------------------------------------------------
(* C20: clearing all notifications of a user *)

\* C20: DELETE /api/notifications/clear-all by a user removes every
\* notification of that user inside the retention window and none of
\* another user
C20_ClearAllClears ==
    [][\A u \in Actors :
          DeleteNotificationRoute(u, ClearAll) =>
             /\ \A i \in 1..Len(notifications') : ~buildBaseQuery(u, notifications'[i])
             /\ SelectSeq(notifications', LAMBDA n : n.recipient # Some(u))
                   = SelectSeq(notifications, LAMBDA n : n.recipient # Some(u))]_vars

----------------------------------------------------------------------------
(* the React client: a session whose token the server rejects *)

\* the token of the stored currentUser stops being accepted: it expires,
\* the user is deleted, the entry is damaged or loses its token
SessionChanges(token) ==
    /\ client.currentUser # Undef
    /\ client.like = <<>>
    /\ client' = [client EXCEPT !.currentUser = Some(token)]
    /\ UNCHANGED resp
    /\ ClientOnly

\* the server handles the request of handleLikePost behind protect, with the
\* token callApi took from localStorage
LikeRequestAuth ==
    /\ client.like # <<>>
    /\ client.currentUser # Undef
    /\ ~LikeAnswered
    /\ LET call == client.like[1] IN
       protect(Val(client.currentUser), ClientUser,
               IF call.isCurrentlyLiked THEN UnlikePost(ClientUser, call.postId)
               ELSE LikePost(ClientUser, call.postId))

\* a logged-in user likes and unlikes posts through the protected routes
\* while the token of the session stops being accepted
NextSession ==
    \/ nextId <= MaxPosts /\ CreatePost(2, MinimalBody("confession"), "ok")
    \/ fetchPosts
    \/ \E token \in Tokens \ {"valid"} : SessionChanges(token)
    \/ \E id \in PostIds : handleLikePost(id)
    \/ LikeRequestAuth
    \/ LikeResponse
    \/ LikeNetworkError

SpecSession == Init /\ [][NextSession]_vars

----------------------------------------------------------------------------
(* C21: a rejected token logs the client out *)

\* C21: when the server has rejected the token of a request of the logged-in
\* client, the client removes currentUser from localStorage and reloads
C21_RejectedTokenLogsOut ==
    [][(LikeResponse /\ resp.op = "protect") => client'.currentUser = Undef]_vars

----------------------------------------------------------------------------
(* the listing of posts and the approval of events *)

\* callers of GET /api/posts: no token, or the token of a user
Callers == {0} \cup Users

\* router.get('/') with every post listed to everybody
Listed_All(u) == DOMAIN posts

\* router.get('/'): Post.find() for an administrator, otherwise
\* Post.find({ status: 'approved' })
Listed(u) ==
    IF u \in Users /\ isAdmin(u) THEN DOMAIN posts
    ELSE {id \in DOMAIN posts : posts[id].status = "approved"}

\* router.get('/')
GetPosts(u) ==
    /\ resp' = [Response("list", 200, u, NoPost) EXCEPT
                  !.body = Some(Listed(u)),
                  !.msg = IF u \in Users /\ isAdmin(u) THEN "all" ELSE "approved"]
    /\ UNCHANGED <<posts, nextId, registrations, notifications, cache, now, inflight, client>>

\* bodies of POST requests, with and without a status of their own
StatusBodies ==
    {Body([type |-> Some(t), status |-> st] @@ Text) :
        t \in {"event", "culturalEvent", "confession"}, st \in {Undef, Some("approved")}}

\* bodies of PUT requests that carry a status, or change the type
StatusUpdates ==
    {Body([status |-> Some("approved")]), Body([status |-> Some("rejected")]),
     Body([type |-> Some("culturalEvent"), status |-> Some("approved")])}

\* the owner creates events and edits them, an administrator and the owner
\* send PUT and approve-event requests, anybody lists the posts
NextModeration ==
    \/ \E p \in StatusBodies : nextId <= MaxEvents /\ CreatePost(2, p, "ok")
    \/ \E u \in {1, 2}, id \in 1..MaxEvents, p \in StatusUpdates : UpdatePost(u, id, p, "ok")
    \/ \E u \in {1, 2}, id \in 1..MaxEvents : ApproveEvent(u, id)
    \/ \E u \in {0, 1, 3} : GetPosts(u)
    \/ \E id \in 1..MaxEvents : LikePost(3, id)
    \/ \E id \in 1..MaxEvents : UnlikePost(3, id)

SpecModeration == Init /\ [][NextModeration]_vars

\* a request of an administrator that may set the status of a post
AdminAction ==
    \/ \E id \in 1..MaxEvents : ApproveEvent(1, id)
    \/ \E id \in 1..MaxEvents, p \in StatusUpdates : UpdatePost(1, id, p, "ok")

----------------------------------------------------------------------------
(* C22: events wait for an administrator *)

\* C22: an event or cultural event is stored as pending whatever status its
\* POST carries; the status of a post changes in requests of an
\* administrator only; and a list answered to anybody but an administrator
\* holds no post whose status is not approved
C22_EventsAwaitApproval ==
    [][/\ \A p \in StatusBodies :
             (/\ Val(p.type) \in {"event", "culturalEvent"}
              /\ CreatePost(2, p, "ok")
              /\ resp'.status = 201) =>
                posts'[resp'.post].status = "pending"
       /\ (\E id \in DOMAIN posts \cap DOMAIN posts' :
              posts'[id].status # posts[id].status) => AdminAction
       /\ \A u \in {0, 3} :
             GetPosts(u) => \A id \in Val(resp'.body) : posts[id].status = "approved"]_vars

\* an event that was created pending is listed to an anonymous caller
\* after its approval
C22_Witness ==
    /\ resp.op = "list"
    /\ resp.msg = "approved"
    /\ \E id \in Val(resp.body) :
          /\ posts[id].type \in {"event", "culturalEvent"}
          /\ posts[id].status = "approved"

----------------------------------------------------------------------------
(* C23: the view counter of a showcase post *)

\* C23: every GET of a showcase post that is answered 200 raises the stored
\* views of the post by one, and the views in the answer are the stored ones
C23_EveryGetCountsAView ==
    [][\A id \in PostIds :
          (/\ Exists(id)
           /\ posts[id].type = "showcase"
           /\ GetPost(id)
           /\ resp'.status = 200) =>
              /\ posts'[id].views = posts[id].views + 1
              /\ Val(resp'.body).views = posts'[id].views]_vars

----------------------------------------------------------------------------
(* GET /api/posts/:id/showcase-comments *)

\* Post.findById(id).select(paths): the paths not selected are not loaded
Select(post, paths) == [f \in Fields |-> IF f \in paths THEN Some(post[f]) ELSE Undef]

\* Array.prototype.slice(startIndex, endIndex), indices counted from 0
Slice(seq, startIndex, endIndex) ==
    LET first == Max(0, startIndex) + 1
        last == IF endIndex > Len(seq) THEN Len(seq) ELSE endIndex
    IN  IF first > last THEN <<>> ELSE SubSeq(seq, first, last)

\* Math.ceil(a / b) for a >= 0 and b > 0
Ceil(a, b) == (a + b - 1) \div b

\* values of req.query.page and req.query.limit
Pages == 1..2
Limits == 1..2

\* router.get('/:id/showcase-comments')
GetShowcaseComments(id, page, limit) ==
    /\ IF ~Exists(id) THEN resp' = Response("showcaseComments", 404, 0, id)
       ELSE LET post == Select(posts[id], {"showcaseComments", "commentCount"}) IN
            IF post.type # Some("showcase")
            THEN resp' = [Response("showcaseComments", 400, 0, id) EXCEPT
                            !.msg = "Only showcase posts can use this comment endpoint"]
            ELSE LET list == Val(post.showcaseComments) IN
                 resp' = [Response("showcaseComments", 200, 0, id) EXCEPT
                            !.body = Some([comments |-> Slice(list, (page - 1) * limit,
                                                              page * limit),
                                           totalPages |-> Ceil(Len(list), limit),
                                           totalComments |-> Len(list)])]
    /\ UNCHANGED <<posts, nextId, registrations, notifications, cache, now, inflight, client>>

\* posts are created and commented on, and pages of their comments are read
NextPaging ==
    \/ \E t \in {"showcase", "confession"} :
          nextId <= MaxPosts /\ CreatePost(2, MinimalBody(t), "ok")
    \/ \E u \in Actors, id \in PostIds :
          /\ Exists(id) => CommentsOf(id) < MaxComments
          /\ AddShowcaseComment(u, id, Some(1))
    \/ \E u \in Actors, id \in PostIds :
          /\ Exists(id) => CommentsOf(id) < MaxComments
          /\ AddComment(u, id, Some(1))
    \/ \E id \in PostIds : LikePost(3, id)
    \/ \E id \in PostIds, page \in Pages, limit \in Limits :
          GetShowcaseComments(id, page, limit)

SpecPaging == Init /\ [][NextPaging]_vars

----------------------------------------------------------------------------
(* C24: pages of showcase comments *)

\* C24: for an existing showcase post the request is answered 200 with the
\* comments at positions (page-1)*limit up to page*limit, the length of the
\* list as totalComments and ceil(totalComments/limit) as totalPages; for a
\* post of another type it is answered 400
C24_CommentPages ==
    [][\A id \in PostIds, page \in Pages, limit \in Limits :
          (Exists(id) /\ GetShowcaseComments(id, page, limit)) =>
             IF posts[id].type = "showcase"
             THEN /\ resp'.status = 200
                  /\ Val(resp'.body).comments =
                        Slice(posts[id].showcaseComments, (page - 1) * limit, page * limit)
                  /\ Val(resp'.body).totalComments = Len(posts[id].showcaseComments)
                  /\ Val(resp'.body).totalPages =
                        Ceil(Len(posts[id].showcaseComments), limit)
             ELSE resp'.status = 400]_vars

----------------------------------------------------------------------------
(* GET /api/auth/can-submit-showcase *)

\* maxSubmissions of router.get('/can-submit-showcase')
maxSubmissions == 5

\* Post.countDocuments({ userId, type: 'showcase' })
userShowcaseCount(ps, u) ==
    Cardinality({id \in DOMAIN ps : ps[id].userId = u /\ ps[id].type = "showcase"})

\* canSubmit of router.get('/can-submit-showcase')
canSubmit(u) ==
    LET isPostingEnabled == now < SUBMISSION_DEADLINE
        canSubmitMore == userShowcaseCount(posts, u) < maxSubmissions
    IN  isPostingEnabled /\ canSubmitMore

----------------------------------------------------------------------------
(* C25: no showcase post once can-submit-showcase says no *)

\* C25: while canSubmit is false for a user, no request of that user raises
\* the number of showcase posts the user owns
C25_ClosedMeansClosed ==
    [][~canSubmit(2) => userShowcaseCount(posts', 2) <= userShowcaseCount(posts, 2)]_vars

----------------------------------------------------------------------------
(* C26: what a registration refers to *)

\* the post takes registrations: it exists, is an event or a cultural event
\* and has its registration open
TakesRegistrations(e) ==
    /\ Exists(e)
    /\ posts[e].type \in {"event", "culturalEvent"}
    /\ posts[e].registrationOpen = Some(TRUE)

\* C26: a register-event request creates a registration only for a post
\* that exists, is an event or a cultural event and has registrationOpen
\* set; against any other post it is rejected and creates nothing
C26_RegistrationNeedsOpenEvent ==
    [][\A u \in Actors, e \in 1..MaxEvents, body \in PlainRegBodies :
          (RegisterEvent(u, e, body) /\ ~TakesRegistrations(e)) =>
             (resp'.status # 201 /\ registrations' = registrations)]_vars

----------------------------------------------------------------------------
(* like, unlike and upvote requests that overlap *)

MaxLikes == 2       \* likes and upvotes of a post, entries of likedBy and of upvoters

\* the requests that load a post, change it in memory and save it
Engagements == {"like", "unlike", "upvote"}

\* the status of a request, decided on the document it has loaded
EngageStatus(op, u, id) ==
    IF ~Exists(id) THEN 404
    ELSE IF op = "like" /\ Includes(posts[id].likedBy, u) THEN 400
    ELSE IF op = "unlike" /\ ~Includes(posts[id].likedBy, u) THEN 400
    ELSE IF op = "upvote" /\ posts[id].type # "showcase" THEN 400
    ELSE IF op = "upvote" /\ posts[id].userId = u THEN 400
    ELSE 200

\* a handler up to and including its await of Post.findById: the request
\* is answered at once when a check fails, otherwise it holds the loaded
\* document; stale tells that the stored version has moved on since
EngageLoad(op, u, id) ==
    /\ LET status == EngageStatus(op, u, id) IN
       IF status = 200
       THEN /\ inflight' = Append(inflight, [op |-> op, user |-> u, post |-> id,
                                              doc |-> posts[id], stale |-> FALSE])
            /\ UNCHANGED resp
       ELSE /\ resp' = Response(op, status, u, id)
            /\ UNCHANGED inflight
    /\ UNCHANGED <<posts, nextId, registrations, notifications, cache, now, client>>

\* the update post.save() sends for the changes made to the loaded document:
\* a counter is written with $set, a push with $push, a replaced array with
\* $set
SaveDelta(stored, r) ==
    LET doc == r.doc
        u == r.user
    IN  IF r.op = "like"
        THEN [stored EXCEPT !.likes = doc.likes + 1, !.likedBy = Append(@, u)]
        ELSE IF r.op = "unlike"
        THEN [stored EXCEPT !.likes = IF doc.likes > 0 THEN doc.likes - 1 ELSE @,
                            !.likedBy = Without(doc.likedBy, u)]
        ELSE IF Includes(doc.upvoters, u)
        THEN [stored EXCEPT !.upvotes = Max(0, doc.upvotes - 1),
                            !.upvoters = Without(doc.upvoters, u)]
        ELSE [stored EXCEPT !.upvotes = doc.upvotes + 1, !.upvoters = Append(@, u)]

\* the save replaces an array, so the update carries the version of the
\* loaded document and fails when the stored version differs
ChecksVersion(r) ==
    r.op = "unlike" \/ (r.op = "upvote" /\ Includes(r.doc.upvoters, r.user))

\* the rest of the handler, from post.save() on
EngageSave(i) ==
    /\ i \in 1..Len(inflight)
    /\ LET r == inflight[i]
           failed == ~Exists(r.post) \/ (ChecksVersion(r) /\ r.stale)
           rest == RemoveAt(inflight, i)
       IN  IF failed
           THEN /\ resp' = Response(r.op, ErrorHandler(500), r.user, r.post)
                /\ inflight' = rest
                /\ UNCHANGED <<posts, cache>>
           ELSE /\ posts' = [posts EXCEPT ![r.post] = SaveDelta(@, r)]
                /\ cache' = CacheDel(cache, r.post)
                /\ resp' = Response(r.op, 200, r.user, r.post)
                /\ inflight' = [k \in 1..Len(rest) |->
                                   IF rest[k].post = r.post
                                   THEN [rest[k] EXCEPT !.stale = TRUE]
                                   ELSE rest[k]]
    /\ UNCHANGED <<nextId, registrations, notifications, now, client>>

\* posts are created; like, unlike and upvote requests of two users load
\* and save them in any order
NextEngageRace ==
    \/ \E t \in {"showcase", "confession"} :
          nextId <= MaxPosts /\ CreatePost(2, MinimalBody(t), "ok")
    \/ \E op \in Engagements, u \in Actors, id \in PostIds :
          /\ EngageStatus(op, u, id) = 200 =>
                /\ Len(inflight) < MaxInflight
                /\ Len(posts[id].likedBy) < MaxLikes
                /\ Len(posts[id].upvoters) < MaxLikes
                /\ posts[id].likes < MaxLikes
                /\ posts[id].upvotes < MaxLikes
          /\ EngageLoad(op, u, id)
    \/ \E i \in 1..MaxInflight : EngageSave(i)

SpecEngageRace == Init /\ [][NextEngageRace]_vars

----------------------------------------------------------------------------
(* C27: counters and the lists they count *)

\* C27: in every state likes is the length of likedBy and, on a showcase
\* post, upvotes is the length of upvoters, also when the requests overlap
C27_CountersMatchLists ==
    \A id \in DOMAIN posts :
        /\ posts[id].likes = Len(posts[id].likedBy)
        /\ posts[id].type = "showcase" => posts[id].upvotes = Len(posts[id].upvoters)

----------------------------------------------------------------------------
(* C28: what the PUT of an owner leaves alone *)

\* ownership, engagement and comments of a post
EngagementFields ==
    {"userId", "likes", "likedBy", "upvotes", "upvoters", "views",
     "commentData", "showcaseComments", "comments", "commentCount"}

\* C28: a PUT of the owner, who is no administrator, leaves the owner, the
\* likes, upvotes and views with their lists, the comment lists and the
\* comment counters of the post as they were
C28_OwnerPutKeepsEngagement ==
    [][\A id \in PostIds, p \in EngageUpdates :
          (Exists(id) /\ UpdatePost(2, id, p, "ok")) =>
             \A f \in EngagementFields : posts'[id][f] = posts[id][f]]_vars

----------------------------------------------------------------------------
(* the upvotedPosts of a user *)

\* userSchema.methods.addUpvotedPost applied to the list
addUpvotedPost(list, postId) ==
    IF Includes(list, postId) THEN list ELSE Append(list, postId)

\* userSchema.methods.removeUpvotedPost applied to the list
removeUpvotedPost(list, postId) == Without(list, postId)

\* upvotedPosts of the stored user: the array starts empty and no route
\* writes it; router.put('/:id/upvote') saves the post only and calls
\* neither addUpvotedPost nor removeUpvotedPost
upvotedPosts(u) == <<>>

----------------------------------------------------------------------------
(* C29: upvotedPosts mirrors upvoters *)

\* C29: a post is in the upvotedPosts of a user exactly when the user is
\* among the upvoters of the post
C29_UpvotedPostsMirror ==
    \A u \in Users, id \in DOMAIN posts :
        Includes(upvotedPosts(u), id) <=> Includes(posts[id].upvoters, u)

----------------------------------------------------------------------------
(* GET /api/posts/:id of a showcase post, overlapping with a mutation *)

\* router.get('/:id') of a showcase post up to and including its await of
\* Post.findById, after a miss of the cache
GetLoad(id) ==
    /\ id \notin DOMAIN cache
    /\ Exists(id)
    /\ posts[id].type = "showcase"
    /\ inflight' = Append(inflight, [op |-> "get", user |-> 0, post |-> id,
                                     doc |-> posts[id], stale |-> FALSE])
    /\ UNCHANGED <<posts, nextId, registrations, notifications, cache, now, resp, client>>

\* the rest of that handler: the views of the loaded document are raised and
\* saved, the document is put into the cache and sent
GetStore(i) ==
    /\ i \in 1..Len(inflight)
    /\ inflight[i].op = "get"
    /\ LET r == inflight[i]
           post == [r.doc EXCEPT !.views = @ + 1]
       IN  /\ inflight' = RemoveAt(inflight, i)
           /\ IF Exists(r.post)
              THEN /\ posts' = [posts EXCEPT ![r.post].views = post.views]
                   /\ cache' = (r.post :> post) @@ cache
                   /\ resp' = [Response("get", 200, 0, r.post) EXCEPT !.body = Some(post)]
              ELSE /\ resp' = Response("get", ErrorHandler(500), 0, r.post)
                   /\ UNCHANGED <<posts, cache>>
    /\ UNCHANGED <<nextId, registrations, notifications, now, client>>

\* a showcase post is read while a user likes and unlikes it; a read that
\* missed the cache may finish after a like has been saved
NextGetRace ==
    \/ nextId <= MaxPosts /\ CreatePost(2, MinimalBody("showcase"), "ok")
    \/ \E id \in PostIds :
          /\ Exists(id) => posts[id].views < MaxViews
          /\ Len(inflight) < MaxInflight
          /\ GetLoad(id)
    \/ \E i \in 1..MaxInflight : GetStore(i)
    \/ \E id \in PostIds :
          /\ (Exists(id) /\ id \notin DOMAIN cache) => posts[id].views < MaxViews
          /\ GetPost(id)
    \/ \E id \in PostIds : CacheExpire(id)
    \/ \E id \in PostIds : LikePost(3, id)
    \/ \E id \in PostIds : UnlikePost(3, id)

SpecGetRace == Init /\ [][NextGetRace]_vars

----------------------------------------------------------------------------
(* C30: a read that overlaps with a mutation *)

\* C30: a GET answered from the cache never shows the likes the post had
\* before a like or unlike that has been saved, also when an earlier GET
\* loaded the post before that save and filled the cache after it
C30_NoStaleAfterRace ==
    [][\A id \in PostIds :
          (Exists(id) /\ id \in DOMAIN cache /\ GetPost(id)) =>
             /\ Val(resp'.body).likes = posts[id].likes
             /\ Val(resp'.body).likedBy = posts[id].likedBy]_vars

====
